---- MODULE Spec2Model ----
(***************************************************************************)
(* Verification model of the weighted-fair multi-core scheduler of         *)
(* task_scheduler.c (run queues, task groups, bandwidth accounting, load   *)
(* balancing) and of the group management of task_scheduler_advanced.c.    *)
(*                                                                         *)
(* Times are nanoseconds, as in the source.  Values of C unsigned types    *)
(* that can wrap below 0 (nr_running, cpu load, now - runtime) are kept as *)
(* the signed representative of their residue modulo 2^64 and compared     *)
(* with ULt/UGe; the two fields whose values are far from both ends of the *)
(* 64-bit range (task_group.quota, custom_task.runtime_left) are kept as   *)
(* eight base-256 digits, least significant first (U64...).                *)
(***************************************************************************)
EXTENDS Integers, Sequences, FiniteSets, TLC

----------------------------------------------------------------------------
(* Program constants                                                       *)

NULL == 0
TASK_RUNNING == 0
TASK_READY == 1
MIN_GRANULARITY == 1000000
FAIR_LATENCY == 6000000
MAX_CPU_CAPACITY == 1024
BANDWIDTH_PERIOD == 100000000
DEFAULT_GROUP_QUOTA == 70
EINVAL == 22
ENOMEM == 12
GROUP_MIN_PERIOD == 1000000
GROUP_MAX_PERIOD == 1000000000
MIN_BANDWIDTH_PERCENT == 1
DEFAULT_BANDWIDTH == 70
GROUP_THROTTLED == 1
LOAD_IMBALANCE_PCT == 125
MAX_GROUP_DEPTH == 8

----------------------------------------------------------------------------
(* Bounds of the model                                                     *)

Quantum == 10000000     \* length of one clock step, in ns
MaxTasks == 2           \* tasks that custom_create_task may allocate
MaxGroups == 1          \* groups that create_task_group may allocate
MaxTicks == 1           \* clock steps
SeqTasks == 3           \* tasks when the calls do not overlap
BWTicks == 10           \* timer ticks of the one-entity scenario
ShareTicks == 10        \* timer ticks of the two-entity scenario
MaxAGroups == 9         \* groups of task_scheduler_advanced.c
TreeGroups == 4         \* groups of the group-tree scenario
WalkGroups == 3         \* groups of the concurrent group walks
SpinThreads == 2        \* threads of a spinlock test
SpinIters == 2          \* iterations of a spinlock test thread

----------------------------------------------------------------------------
(* 64-bit unsigned arithmetic on eight base-256 digits                     *)

RECURSIVE U64Digits(_, _)
U64Digits(n, k) ==
    IF k = 0 THEN <<>> ELSE <<n % 256>> \o U64Digits(n \div 256, k - 1)

\* the u64 with value n, 0 <= n < 2^31
U64(n) == U64Digits(n, 8)

\* carry propagation over column sums; the carry out of digit 8 is dropped,
\* which is the reduction modulo 2^64
RECURSIVE U64Carry(_, _, _)
U64Carry(cols, i, carry) ==
    IF i > 8 THEN <<>>
    ELSE LET s == cols[i] + carry
         IN  <<s % 256>> \o U64Carry(cols, i + 1, s \div 256)

U64Add(a, b) == U64Carry([i \in 1..8 |-> a[i] + b[i]], 1, 0)

U64Neg(a) == U64Carry([i \in 1..8 |-> (255 - a[i]) + (IF i = 1 THEN 1 ELSE 0)], 1, 0)

U64Sub(a, b) == U64Add(a, U64Neg(b))

RECURSIVE U64Col(_, _, _, _)
U64Col(a, b, k, i) ==
    IF i > k THEN 0 ELSE a[i] * b[k - i + 1] + U64Col(a, b, k, i + 1)

U64Mul(a, b) == U64Carry([k \in 1..8 |-> U64Col(a, b, k, 1)], 1, 0)

\* quotient of a by a divisor 0 < d <= 2^22: long division from digit 8 down,
\* most significant quotient digit first
RECURSIVE U64DivDigits(_, _, _, _)
U64DivDigits(a, d, i, rem) ==
    IF i = 0 THEN <<>>
    ELSE LET cur == rem * 256 + a[i]
         IN  <<cur \div d>> \o U64DivDigits(a, d, i - 1, cur % d)

RECURSIVE U64Reverse(_)
U64Reverse(s) == IF s = <<>> THEN <<>> ELSE U64Reverse(Tail(s)) \o <<Head(s)>>

U64Div(a, d) == U64Reverse(U64DivDigits(a, d, 8, 0))

RECURSIVE U64Cmp(_, _, _)
U64Cmp(a, b, i) ==
    IF i = 0 THEN 0
    ELSE IF a[i] < b[i] THEN -1
    ELSE IF a[i] > b[i] THEN 1
    ELSE U64Cmp(a, b, i - 1)

U64Lt(a, b) == U64Cmp(a, b, 8) < 0
U64Le(a, b) == U64Cmp(a, b, 8) <= 0

\* conversion of a C int (sign extension) or of a small unsigned value
U64FromInt(n) == IF n >= 0 THEN U64(n) ELSE U64Neg(U64(-n))

\* the low 32 bits of a, read as a C int (two's complement)
S32(a) ==
    LET lo == a[1] + 256 * a[2] + 65536 * a[3]
    IN  IF a[4] >= 128 THEN lo + 16777216 * (a[4] - 256)
                       ELSE lo + 16777216 * a[4]

\* C int multiplication, wrapping at 32 bits
IntMul(x, y) == S32(U64Mul(U64FromInt(x), U64FromInt(y)))

\* C integer division truncates toward zero
CDiv(x, y) == IF x >= 0 THEN x \div y ELSE -((-x) \div y)

\* comparison of unsigned values held as signed representatives
ULt(a, b) == IF (a >= 0) = (b >= 0) THEN a < b ELSE a >= 0
UGe(a, b) == ~ULt(a, b)

----------------------------------------------------------------------------
(* State                                                                   *)

VARIABLES
    now,            \* ktime_get_ns()
    tasks,          \* struct custom_task, in order of allocation (index = pid)
    groups,         \* struct task_group, in order of allocation
    rq,             \* cpu_rqs[]
    balancing_lock, \* holder of balancing_lock, NULL when free
    pc,             \* where each thread is
    loc,            \* each thread's locals that live across a lock release
    last,           \* the last custom_create_task call that returned
    oops,           \* a thread has taken a fatal fault
    quanta,         \* per task: the clock steps it entered as a running task
    agroups,        \* struct task_group_advanced, in order of allocation
    alast,          \* the last create_task_group call (advanced) that returned
    wq,             \* a call of one function of the scheduler and its answer
    freed,          \* what custom_scheduler_exit has passed to kfree
    data,           \* struct shared_data of spinlock_test.c, and the running test
    thr,            \* the threads of spinlock_test.c
    walk,           \* per thread: where it is in a walk over the groups
    atasks,         \* struct task_extension of task_scheduler_advanced.c
    att,            \* per thread: where it is in attach_task_to_group
    bwc             \* a struct bandwidth_control of a caller, and its last check

\* the state of the calls that are followed step by step inside a function,
\* and of the callers of task_scheduler_advanced.h
inner == <<walk, atasks, att, bwc>>

\* the variables that no call into the loaded scheduler changes
outside == <<freed, data, thr, inner>>

vars == <<now, tasks, groups, rq, balancing_lock, pc, loc, last, oops, quanta,
          agroups, alast, wq, outside>>

\* the variables of the scheduler of task_scheduler.c

\* nr_cpus = num_online_cpus()
NCPU == 2

CPUs == 0 .. NCPU - 1
Threads == 1 .. NCPU
\* smp_processor_id() of thread p
CpuOf(p) == p - 1

NoLocals == [prev |-> NULL, busiest |-> 0, idlest |-> 0, task |-> NULL]

\* niceness and group arguments that callers pass to custom_create_task
NiceInputs == {-21, -20, 0, 20}
GroupInputs == {NULL} \cup (1 .. Len(groups))

----------------------------------------------------------------------------
(* Weights and load                                                        *)

NICE_TO_WEIGHT(nice) == nice + 20

\* create_task calls calc_weight(nice); no file of the repository defines it.
\* NICE_TO_WEIGHT is the one niceness-to-weight mapping the source has.
calc_weight(nice) == NICE_TO_WEIGHT(nice)

calc_cpu_load(q) == q.nr_running * NICE_TO_WEIGHT(0)

RECURSIVE BusiestFrom(_, _, _, _)
BusiestFrom(r, cpu, busiest_cpu, max_load) ==
    IF cpu >= NCPU THEN busiest_cpu
    ELSE LET load == calc_cpu_load(r[cpu])
         IN  IF ULt(max_load, load) THEN BusiestFrom(r, cpu + 1, cpu, load)
             ELSE BusiestFrom(r, cpu + 1, busiest_cpu, max_load)

find_busiest_cpu(r) == BusiestFrom(r, 0, 0, 0)

RECURSIVE IdlestFrom(_, _, _, _)
IdlestFrom(r, cpu, idlest_cpu, min_load) ==
    IF cpu >= NCPU THEN idlest_cpu
    ELSE LET load == calc_cpu_load(r[cpu])
         IN  IF ULt(load, min_load) THEN IdlestFrom(r, cpu + 1, cpu, load)
             ELSE IdlestFrom(r, cpu + 1, idlest_cpu, min_load)

\* find_idlest_cpu whose min_load starts at 0
find_idlest_cpuFromZero(r) == IdlestFrom(r, 0, 0, 0)

\* min_load starts at ULONG_MAX, whose signed representative is -1
find_idlest_cpu(r) == IdlestFrom(r, 0, 0, -1)

----------------------------------------------------------------------------
(* The ordered index.  Every insertion of the source is                    *)
(*   rb_link_node(&node, NULL, &root.rb_node); rb_insert_color(&node, &root)*)
(* rb_link_node stores the node in the link it is given, here the root     *)
(* pointer itself, with no parent and no children; rb_insert_color then    *)
(* finds a node without parent and only colours it black.  The index is    *)
(* held as the in-order sequence of the nodes reachable from the root.     *)

rb_first(tree) == IF tree = <<>> THEN NULL ELSE Head(tree)

rb_link_node(tree, t) == <<t>>

rb_insert_color(tree, t) == tree

rb_insert(tree, t) == rb_insert_color(rb_link_node(tree, t), t)

rb_erase(tree, t) == SelectSeq(tree, LAMBDA x : x # t)

InTree(tree, t) == \E i \in 1 .. Len(tree) : tree[i] = t

----------------------------------------------------------------------------
(* Task groups of task_scheduler.c                                         *)

\* (BANDWIDTH_PERIOD * DEFAULT_GROUP_QUOTA) / 100 is an int expression: the
\* product wraps at 32 bits, the quotient is converted to unsigned long long
DefaultQuota ==
    U64FromInt(CDiv(IntMul(BANDWIDTH_PERIOD, DEFAULT_GROUP_QUOTA), 100))

\* start, early and top are history fields, not fields of struct task_group:
\* start is the time at which the group's current period began (its creation
\* or the last reset of a positive runtime), early records that a positive
\* runtime was reset before the period had ended, top is the largest value
\* the runtime has had
NewGroup(parent, t) ==
    [weight |-> NICE_TO_WEIGHT(0), vruntime |-> 0, quota |-> DefaultQuota,
     period |-> BANDWIDTH_PERIOD, runtime |-> 0, parent |-> parent,
     children |-> <<>>, group_lock |-> NULL, cpu_preferred |-> -1,
     start |-> t, early |-> FALSE, top |-> 0]

\* create_task_group that links the new group as the parent of its parent
create_task_groupLinkedBack(G, parent, t) ==
    LET g  == Len(G) + 1
        G1 == Append(G, NewGroup(parent, t))
    IN  IF parent # NULL
        THEN [G1 EXCEPT ![parent].children = Append(@, g), ![parent].parent = g]
        ELSE G1

\* the groups after create_task_group(parent) has allocated a group at time t
create_task_group(G, parent, t) ==
    LET g  == Len(G) + 1
        G1 == Append(G, NewGroup(parent, t))
    IN  IF parent # NULL
        THEN [G1 EXCEPT ![parent].children = Append(@, g)]
        ELSE G1

\* the condition under which check_group_runtime resets the runtime
PeriodExpired(t, runtime, period) == UGe(t - runtime, period)

\* group g after the reset branch of check_group_runtime at time t
ResetPeriod(grp, t) ==
    LET ended == t >= grp.start + grp.period
    IN  [grp EXCEPT !.runtime = 0,
                    !.start = IF ended \/ grp.runtime > 0 THEN t ELSE @,
                    !.early = @ \/ (grp.runtime > 0 /\ ~ended)]

\* check_group_runtime: the walk from group g to the root at time t
RECURSIVE CheckWalk(_, _, _)
CheckWalk(G, g, t) ==
    IF g = NULL THEN [has |-> TRUE, groups |-> G]
    ELSE LET G1 == IF PeriodExpired(t, G[g].runtime, G[g].period)
                   THEN [G EXCEPT ![g] = ResetPeriod(@, t)] ELSE G
         IN  IF U64Le(G1[g].quota, U64FromInt(G1[g].runtime))
             THEN [has |-> FALSE, groups |-> G1]
             ELSE CheckWalk(G1, G1[g].parent, t)

check_group_runtime(T, G, task, t) == CheckWalk(G, T[task].group, t)

RECURSIVE UpdateWalk(_, _, _)
UpdateWalk(G, g, delta) ==
    IF g = NULL THEN G
    ELSE UpdateWalk([G EXCEPT ![g].runtime = @ + delta,
                              ![g].vruntime = @ + delta,
                              ![g].top = IF G[g].runtime + delta > @
                                         THEN G[g].runtime + delta ELSE @],
                    G[g].parent, delta)

\* update_group_runtime that charges the group of the task and stops
update_group_runtimeOwnGroup(T, G, task, delta) ==
    [G EXCEPT ![T[task].group].runtime = @ + delta,
              ![T[task].group].vruntime = @ + delta]

update_group_runtime(T, G, task, delta) == UpdateWalk(G, T[task].group, delta)

----------------------------------------------------------------------------
(* Accounting, preemption and dispatch (schedule)                          *)

\* (delta_exec * NICE_TO_WEIGHT(0)) / weight, weight > 0: the quotient is
\* taken digit-wise so that the product is never formed beyond 31 bits
VruntimeDelta(delta_exec, weight) ==
    (delta_exec \div weight) * NICE_TO_WEIGHT(0)
        + ((delta_exec % weight) * NICE_TO_WEIGHT(0)) \div weight

\* an exec_start test that lets every entity through
NoExecStartNever(tk) == FALSE

\* if (!task->exec_start) return;
NoExecStart(tk) == tk.exec_start = 0

\* update_curr_advanced(task, rq) at time t on S = [tasks, groups, rq, fault];
\* a weight of 0 makes the division trap after the earlier assignments
update_curr_advanced(S, task, c, t) ==
    LET tk == S.tasks[task]
    IN  IF NoExecStart(tk) THEN S
        ELSE
        LET delta_exec == t - tk.exec_start
            G1 == update_group_runtime(S.tasks, S.groups, task, delta_exec)
            spent == U64Le(tk.runtime_left, U64FromInt(delta_exec))
            T1 == [S.tasks EXCEPT
                     ![task].sum_exec_runtime = @ + delta_exec,
                     ![task].runtime_left =
                         IF spent THEN U64(0) ELSE U64Sub(@, U64FromInt(delta_exec)),
                     ![task].deadline =
                         IF spent THEN t + BANDWIDTH_PERIOD ELSE @]
        IN  IF tk.weight = 0
            THEN [tasks |-> T1, groups |-> G1, rq |-> S.rq, fault |-> TRUE]
            ELSE
            LET v == tk.vruntime + VruntimeDelta(delta_exec, tk.weight)
            IN  [tasks  |-> [T1 EXCEPT ![task].vruntime = v],
                 groups |-> G1,
                 rq     |-> IF v < S.rq[c].min_vruntime
                            THEN [S.rq EXCEPT ![c].min_vruntime = v]
                            ELSE S.rq,
                 fault  |-> FALSE]

\* schedule(), lines 303-311: account prev and put it back into the index
Requeue(S, c, t) ==
    LET prev == S.rq[c].curr
    IN  IF prev = NULL THEN S
        ELSE
        LET S1 == update_curr_advanced(S, prev, c, t)
        IN  IF S1.fault \/ S1.tasks[prev].state # TASK_RUNNING THEN S1
            ELSE [S1 EXCEPT
                    !.tasks[prev].state = TASK_READY,
                    !.rq[c].tasks_timeline = rb_insert(@, prev)]

\* should_preempt without the comparison of the deadlines
should_preemptNoDeadline(T, G, curr, next, t) ==
    IF curr = NULL THEN [res |-> TRUE, groups |-> G]
    ELSE
    LET c1 == check_group_runtime(T, G, curr, t)
        c2 == check_group_runtime(T, c1.groups, next, t)
        G2 == IF c1.has THEN c1.groups ELSE c2.groups
    IN  IF ~c1.has /\ c2.has THEN [res |-> TRUE, groups |-> G2]
        ELSE IF T[next].vruntime + FAIR_LATENCY < T[curr].vruntime
             THEN [res |-> TRUE, groups |-> G2]
        ELSE [res |-> FALSE, groups |-> G2]

\* should_preempt(curr, next) at time t: the answer and the groups as the
\* calls of check_group_runtime leave them
should_preempt(T, G, curr, next, t) ==
    IF curr = NULL THEN [res |-> TRUE, groups |-> G]
    ELSE
    LET c1 == check_group_runtime(T, G, curr, t)
        c2 == check_group_runtime(T, c1.groups, next, t)
        G2 == IF c1.has THEN c1.groups ELSE c2.groups
    IN  IF ~c1.has /\ c2.has THEN [res |-> TRUE, groups |-> G2]
        ELSE IF T[next].vruntime + FAIR_LATENCY < T[curr].vruntime
             THEN [res |-> TRUE, groups |-> G2]
        ELSE IF /\ T[next].deadline # 0
                /\ T[curr].deadline # 0
                /\ T[next].deadline < T[curr].deadline
             THEN [res |-> TRUE, groups |-> G2]
        ELSE [res |-> FALSE, groups |-> G2]

\* (group->quota * BANDWIDTH_PERIOD) / 100 in unsigned long long
QuotaShare(quota) == U64Div(U64Mul(quota, U64(BANDWIDTH_PERIOD)), 100)

\* a test of the deadline that a dispatch at the deadline itself fails
DeadlinePassedAfter(t, deadline) == t > deadline

\* schedule(), line 343: now >= next->deadline
DeadlinePassed(t, deadline) == t >= deadline

\* schedule(), lines 336-349: next becomes the running task of cpu c
Dispatch(S, c, next, t) ==
    LET tree == rb_erase(S.rq[c].tasks_timeline, next)
        rearm == DeadlinePassed(t, S.tasks[next].deadline)
    IN  [S EXCEPT
           !.tasks[next].exec_start = t,
           !.tasks[next].state = TASK_RUNNING,
           !.tasks[next].runtime_left =
               IF rearm THEN QuotaShare(S.groups[S.tasks[next].group].quota) ELSE @,
           !.tasks[next].deadline =
               IF rearm THEN t + BANDWIDTH_PERIOD ELSE @,
           !.rq[c].tasks_timeline = tree,
           !.rq[c].curr = next,
           !.rq[c].nr_running = IF rb_first(tree) # NULL THEN 1 ELSE 0]

\* schedule(), lines 324-351, with next read from the index
Finish(S, c, prev, next, t) ==
    IF next = NULL THEN S
    ELSE
    LET sp == should_preempt(S.tasks, S.groups, prev, next, t)
        S1 == [S EXCEPT !.groups = sp.groups]
    IN  IF sp.res THEN Dispatch(S1, c, next, t) ELSE S1

----------------------------------------------------------------------------
(* Task creation                                                           *)

\* the arguments of custom_create_task are a niceness in [-20, 19] and a group
ArgsValid(nice, group) == nice \in -20 .. 19 /\ group # NULL

\* the range check without its upper limit
NiceOutOfRangeNoUpper(nice) == nice < -20

\* custom_create_task, line 385: nice < -20 || nice > 19
NiceOutOfRange(nice) == nice < -20 \/ nice > 19

create_task(pid, nice, group, G, t) ==
    [pid |-> pid, state |-> TASK_READY, nice |-> nice,
     weight |-> calc_weight(nice), vruntime |-> 0, exec_start |-> 0,
     sum_exec_runtime |-> 0, group |-> group, cpu |-> -1,
     deadline |-> t + BANDWIDTH_PERIOD,
     runtime_left |-> QuotaShare(G[group].quota)]

----------------------------------------------------------------------------
(* Initial state: custom_scheduler_init has run                            *)

\* the clock at module initialisation
BootTime == 2 * BANDWIDTH_PERIOD

\* init_cpu_rqs that starts min_vruntime at one bandwidth period
init_cpu_rqsLateMin ==
    [c \in CPUs |->
        [tasks_timeline |-> <<>>, nr_running |-> 0, cpu_load |-> 0,
         lock |-> NULL, curr |-> NULL, min_vruntime |-> BANDWIDTH_PERIOD,
         capacity |-> MAX_CPU_CAPACITY]]

init_cpu_rqs ==
    [c \in CPUs |->
        [tasks_timeline |-> <<>>, nr_running |-> 0, cpu_load |-> 0,
         lock |-> NULL, curr |-> NULL, min_vruntime |-> 0,
         capacity |-> MAX_CPU_CAPACITY]]

NoCall == [valid |-> TRUE, res |-> 0]

\* the scheduler after custom_scheduler_init at time t
SchedInit(t) ==
    /\ now = t
    /\ tasks = <<>>
    /\ groups = <<>>
    /\ rq = init_cpu_rqs
    /\ balancing_lock = NULL
    /\ pc = [p \in Threads |-> "idle"]
    /\ loc = [p \in Threads |-> NoLocals]
    /\ last = NoCall
    /\ oops = FALSE

\* no group of task_scheduler_advanced.c exists
NoAdvanced ==
    /\ agroups = <<>>
    /\ alast = [parent |-> NULL, res |-> 0]

\* the threads main() of spinlock_test.c creates for a test
TestThreads == 1 .. SpinThreads

NoTicket == [i |-> 0, ticket |-> 0, tmp |-> 0]

\* a thread that is in no walk over the groups
NoWalk == [pc |-> "none", task |-> NULL, delta |-> 0, group |-> NULL, tmp |-> 0]

\* a thread that is not in attach_task_to_group
NoAttach == [pc |-> "idle", task |-> NULL, group |-> NULL, calls |-> 0, res |-> 0]

\* no caller has a bandwidth_control record of its own
NoBandwidth == [bw |-> <<>>, chk |-> <<>>]

\* custom_scheduler_exit has not run; main() of spinlock_test.c has
\* initialised struct shared_data data = {0} and created no thread
Untouched ==
    /\ freed = [tasks |-> {}, cpu_rqs |-> FALSE]
    /\ data = [test |-> "start", counter |-> 0, basic_lock |-> 0,
               raw_lock |-> [raw_lock |-> 0, owner_cpu |-> 0,
                             next_ticket |-> 0, owner_ticket |-> 0]]
    /\ thr = [k \in TestThreads |-> [pc |-> "none"] @@ NoTicket]
    /\ walk = [p \in Threads |-> NoWalk]
    /\ atasks = <<>>
    /\ att = [p \in Threads |-> NoAttach]
    /\ bwc = NoBandwidth

Init ==
    SchedInit(BootTime) /\ NoAdvanced /\ quanta = <<>> /\ wq = <<>> /\ Untouched

Here == [tasks |-> tasks, groups |-> groups, rq |-> rq, fault |-> FALSE]

----------------------------------------------------------------------------
(* Steps.  A step is what a thread does between two points at which        *)
(* another thread can act on the data it uses: a critical section of a     *)
(* run-queue lock, or the part of load_balance before the run-queue locks. *)

\* the thread stops in a fault, with what it had written so far
Fault(S, p) ==
    /\ oops' = TRUE
    /\ tasks' = S.tasks /\ groups' = S.groups /\ rq' = S.rq
    /\ UNCHANGED <<pc, loc>>

\* schedule() returns
Return(S, p) ==
    /\ tasks' = S.tasks /\ groups' = S.groups /\ rq' = S.rq
    /\ pc' = [pc EXCEPT ![p] = "idle"]
    /\ loc' = [loc EXCEPT ![p] = NoLocals]
    /\ UNCHANGED oops

\* schedule(), lines 317-319: the lock is released to call load_balance()
ToBalance(S, p, prev) ==
    /\ tasks' = S.tasks /\ groups' = S.groups /\ rq' = S.rq
    /\ pc' = [pc EXCEPT ![p] = "sched_balance"]
    /\ loc' = [loc EXCEPT ![p].prev = prev]
    /\ UNCHANGED oops

\* rq->nr_running > (rq->capacity / NICE_TO_WEIGHT(0))
OverThreshold(q) == ULt(q.capacity \div NICE_TO_WEIGHT(0), q.nr_running)

\* schedule(), lines 301-317, and lines 324-351 when load_balance is not called.
\* rb_entry(rb_first(..)) of an empty index is container_of(NULL): the result
\* is undefined; it is read as no task, or it is a pointer whose first
\* dereference faults.
SchedEnter(p) ==
    /\ ~oops /\ pc[p] = "idle"
    /\ LET c    == CpuOf(p)
           prev == rq[c].curr
           S1   == Requeue(Here, c, now)
           next == rb_first(S1.rq[c].tasks_timeline)
           over == OverThreshold(S1.rq[c])
       IN  IF S1.fault THEN Fault(S1, p)
           ELSE IF next = NULL
           THEN \/ ToBalance(S1, p, prev)
                \/ IF over THEN ToBalance(S1, p, prev) ELSE Fault(S1, p)
           ELSE IF over THEN ToBalance(S1, p, prev)
           ELSE Return(Finish(S1, c, prev, next, now), p)
    /\ UNCHANGED <<now, balancing_lock, last, quanta, agroups, alast, wq, outside>>

\* schedule(), lines 320-351, after load_balance() has returned
SchedResume(p) ==
    /\ ~oops /\ pc[p] = "sched_resume"
    /\ LET c    == CpuOf(p)
           next == rb_first(rq[c].tasks_timeline)
       IN  IF next = NULL
           THEN \/ Return(Here, p)
                \/ Fault(Here, p)
           ELSE Return(Finish(Here, c, loc[p].prev, next, now), p)
    /\ UNCHANGED <<now, balancing_lock, last, quanta, agroups, alast, wq, outside>>

\* where a thread continues when load_balance() returns
AfterBalance(p) == IF pc[p] \in {"sched_balance", "sched_move", "sched_idlest"}
                   THEN "sched_resume" ELSE "idle"

\* load_balance(), lines 212-223: called by schedule() or by a periodic driver
LBFind(p) ==
    /\ ~oops /\ pc[p] \in {"idle", "sched_balance"}
    /\ balancing_lock = NULL
    /\ LET busiest_cpu == find_busiest_cpu(rq)
           idlest_cpu  == find_idlest_cpu(rq)
       IN  IF busiest_cpu = idlest_cpu
           THEN /\ pc' = [pc EXCEPT ![p] = AfterBalance(p)]
                /\ UNCHANGED <<balancing_lock, loc>>
           ELSE /\ balancing_lock' = p
                /\ pc' = [pc EXCEPT ![p] = IF pc[p] = "idle" THEN "lb_move"
                                                             ELSE "sched_move"]
                /\ loc' = [loc EXCEPT ![p].busiest = busiest_cpu,
                                      ![p].idlest = idlest_cpu]
    /\ UNCHANGED <<now, tasks, groups, rq, last, oops, quanta, agroups, alast, wq, outside>>

\* load_balance(), lines 225-238, on the run queues r and tasks T
MoveTask(T, r, busiest_cpu, idlest_cpu) ==
    LET task == rb_first(r[busiest_cpu].tasks_timeline)
    IN  IF task = NULL THEN [tasks |-> T, rq |-> r]
        ELSE
        LET r1 == [r EXCEPT
                     ![busiest_cpu].tasks_timeline = rb_erase(@, task),
                     ![busiest_cpu].nr_running = @ - 1]
        IN  [tasks |-> [T EXCEPT ![task].cpu = idlest_cpu],
             rq    |-> [r1 EXCEPT
                          ![idlest_cpu].tasks_timeline = rb_insert(@, task),
                          ![idlest_cpu].nr_running = @ + 1]]

\* load_balance(), lines 225-242
LBMove(p) ==
    /\ ~oops /\ pc[p] \in {"lb_move", "sched_move"}
    /\ LET m == MoveTask(tasks, rq, loc[p].busiest, loc[p].idlest)
       IN  tasks' = m.tasks /\ rq' = m.rq
    /\ balancing_lock' = NULL
    /\ pc' = [pc EXCEPT ![p] = AfterBalance(p)]
    /\ loc' = [loc EXCEPT ![p].busiest = 0, ![p].idlest = 0]
    /\ UNCHANGED <<now, groups, last, oops, quanta, agroups, alast, wq, outside>>

\* custom_create_task(pid, nice, group), lines 385-397; room is whether the
\* model lets kmalloc return another task
CreateCall(p, nice, group, room) ==
    /\ ~oops /\ pc[p] = "idle"
    /\ IF NiceOutOfRange(nice) \/ group = NULL
       THEN /\ last' = [valid |-> ArgsValid(nice, group), res |-> -EINVAL]
            /\ UNCHANGED <<tasks, pc, loc>>
       ELSE \/ /\ last' = [valid |-> ArgsValid(nice, group), res |-> -ENOMEM]
               /\ UNCHANGED <<tasks, pc, loc>>
            \/ /\ room
               /\ LET pid  == Len(tasks) + 1
                      task == create_task(pid, nice, group, groups, now)
                  IN  tasks' = Append(tasks, [task EXCEPT !.cpu = find_idlest_cpu(rq)])
               /\ pc' = [pc EXCEPT ![p] = "create_insert"]
               /\ loc' = [loc EXCEPT ![p].task = Len(tasks) + 1]
               /\ UNCHANGED last
    /\ UNCHANGED <<now, groups, rq, balancing_lock, oops, quanta, agroups, alast, wq, outside>>

\* custom_create_task, lines 399-405
CreateInsert(p) ==
    /\ ~oops /\ pc[p] = "create_insert"
    /\ LET task == loc[p].task
           cpu  == tasks[task].cpu
       IN  /\ rq' = [rq EXCEPT ![cpu].tasks_timeline = rb_insert(@, task),
                               ![cpu].nr_running = @ + 1]
           /\ last' = [valid |-> ArgsValid(tasks[task].nice, tasks[task].group),
                       res |-> 0]
    /\ pc' = [pc EXCEPT ![p] = "idle"]
    /\ loc' = [loc EXCEPT ![p] = NoLocals]
    /\ UNCHANGED <<now, tasks, groups, balancing_lock, oops, quanta, agroups, alast, wq, outside>>

Quiescent == \A p \in Threads : pc[p] = "idle"

\* create_task_group(parent) of task_scheduler.c.  The groups are created
\* before the tasks: a task is created with a group that exists.
CreateGroup(parent) ==
    /\ ~oops /\ tasks = <<>> /\ Quiescent
    /\ groups' = create_task_group(groups, parent, now)
    /\ UNCHANGED <<now, tasks, rq, balancing_lock, pc, loc, last, oops, quanta,
                   agroups, alast, wq, outside>>

\* the clock advances by one step; the operations are short against a step
Tick ==
    /\ ~oops /\ Quiescent
    /\ now' = now + Quantum
    /\ UNCHANGED <<tasks, groups, rq, balancing_lock, pc, loc, last, oops, quanta,
                   agroups, alast, wq, outside>>

\* the bound on repeated accounting: every schedule() call accounts the time
\* since the running task's last dispatch again
Accountable(c, cap) ==
    IF rq[c].curr = NULL THEN TRUE
    ELSE tasks[rq[c].curr].sum_exec_runtime < cap

----------------------------------------------------------------------------
(* Threads that call schedule() on their cpu, custom_create_task and       *)
(* load_balance() in any interleaving of their steps                       *)

Next ==
    \/ \E p \in Threads :
          Accountable(CpuOf(p), 2 * MaxTicks * Quantum) /\ SchedEnter(p)
    \/ \E p \in Threads : SchedResume(p)
    \/ \E p \in Threads : LBFind(p)
    \/ \E p \in Threads : LBMove(p)
    \/ \E p \in Threads : \E nice \in NiceInputs : \E group \in GroupInputs :
          CreateCall(p, nice, group, Len(tasks) < MaxTasks)
    \/ \E p \in Threads : CreateInsert(p)
    \/ \E parent \in GroupInputs : Len(groups) < MaxGroups /\ CreateGroup(parent)
    \/ now < BootTime + MaxTicks * Quantum /\ Tick

Spec == Init /\ [][Next]_vars

----------------------------------------------------------------------------
(* The same calls, one after the other: a call begins when no other call   *)
(* is in progress                                                          *)

\* no thread but p is inside a call
Alone(p) == \A q \in Threads \ {p} : pc[q] = "idle"

SeqNext ==
    \/ \E p \in Threads :
          Alone(p) /\ Accountable(CpuOf(p), 2 * MaxTicks * Quantum) /\ SchedEnter(p)
    \/ \E p \in Threads : Alone(p) /\ SchedResume(p)
    \/ \E p \in Threads : Alone(p) /\ LBFind(p)
    \/ \E p \in Threads : Alone(p) /\ LBMove(p)
    \/ \E p \in Threads : \E nice \in NiceInputs : \E group \in GroupInputs :
          Alone(p) /\ CreateCall(p, nice, group, Len(tasks) < SeqTasks)
    \/ \E p \in Threads : Alone(p) /\ CreateInsert(p)
    \/ \E parent \in GroupInputs : Len(groups) < MaxGroups /\ CreateGroup(parent)
    \/ now < BootTime + MaxTicks * Quantum /\ Tick

SpecSeq == Init /\ [][SeqNext]_vars

----------------------------------------------------------------------------
(* One entity in one group, driven by the timer tick                       *)

\* the timer tick of cpu CpuOf(p): the clock advances by one quantum and
\* schedule() runs on the cpu, lines 301-351; the cpu has a task, so that
\* load_balance() is not called
TickSchedule(p) ==
    /\ ~oops /\ Quiescent
    /\ LET c    == CpuOf(p)
           t    == now + Quantum
           prev == rq[c].curr
           S1   == Requeue(Here, c, t)
           next == rb_first(S1.rq[c].tasks_timeline)
       IN  /\ ~S1.fault /\ next # NULL /\ ~OverThreshold(S1.rq[c])
           /\ now' = t
           /\ Return(Finish(S1, c, prev, next, t), p)
    /\ UNCHANGED <<balancing_lock, last, agroups, alast, wq, outside>>

\* niceness of the entities of the scenarios
ScenarioNice == {0, 10, 19}

BWNext ==
    \/ groups = <<>> /\ CreateGroup(NULL)
    \/ \E p \in Threads : \E nice \in ScenarioNice :
          Alone(p) /\ groups # <<>> /\ CreateCall(p, nice, 1, tasks = <<>>)
    \/ \E p \in Threads : CreateInsert(p)
    \/ \E p \in Threads :
          /\ tasks # <<>> /\ CpuOf(p) = tasks[1].cpu
          /\ Accountable(CpuOf(p), BWTicks * Quantum)
          /\ SchedEnter(p)
    \/ \E p \in Threads :
          /\ tasks # <<>> /\ CpuOf(p) = tasks[1].cpu
          /\ now < BootTime + BWTicks * Quantum
          /\ TickSchedule(p) /\ UNCHANGED quanta

SpecBW == Init /\ [][BWNext]_vars

\* C4: bandwidth hard cap: the runtime of a group with period P and a quota
\* of 0.7 P, holding one always-ready entity that the timer tick schedules,
\* never exceeds the quota by more than one scheduling quantum within a
\* period.
BandwidthHardCap ==
    \A g \in 1 .. Len(groups) :
        groups[g].top
            <= (groups[g].period \div 100) * DEFAULT_GROUP_QUOTA + Quantum

\* C10: hard throttling: a group's runtime is reset to 0 only at a period
\* boundary, never earlier, so that a group which has used its quota stays
\* without budget until the boundary has passed.
ResetOnlyAtBoundary == \A g \in 1 .. Len(groups) : ~groups[g].early

----------------------------------------------------------------------------
(* Two entities of one group on one cpu, driven by the timer tick          *)

\* quanta[t] counts the quanta given to task t: the clock steps at whose
\* beginning schedule() left t in the running slot
ShareInit ==
    /\ SchedInit(BootTime) /\ NoAdvanced /\ quanta = <<0, 0>> /\ wq = <<>>
    /\ Untouched

\* both entities exist and are on the cpu of thread p
OnOneCpu(p) ==
    /\ Len(tasks) = 2
    /\ \A t \in 1 .. 2 : tasks[t].cpu = CpuOf(p)

ShareNext ==
    \/ groups = <<>> /\ CreateGroup(NULL)
    \/ \E p \in Threads : \E nice \in ScenarioNice :
          Alone(p) /\ groups # <<>> /\ CreateCall(p, nice, 1, Len(tasks) < 2)
    \/ \E p \in Threads : CreateInsert(p)
    \/ \E p \in Threads :
          /\ Len(tasks) = 1 /\ CpuOf(p) = tasks[1].cpu /\ rq[CpuOf(p)].curr = NULL
          /\ SchedEnter(p)
    \/ \E p \in Threads :
          /\ OnOneCpu(p)
          /\ now < BootTime + ShareTicks * Quantum
          /\ TickSchedule(p)
          /\ quanta' = [quanta EXCEPT ![rq'[CpuOf(p)].curr] = @ + 1]

SpecShare == ShareInit /\ [][ShareNext]_vars

\* C5: proportional share: two always-ready entities of weights w1 and w2 in
\* one group on one cpu: after any number N of quanta, the number of quanta
\* given to entity 1 differs from N w1 / (w1 + w2) by at most a constant (two
\* quanta).
ProportionalShare ==
    (\E p \in Threads : OnOneCpu(p)) =>
        LET w1 == tasks[1].weight
            w2 == tasks[2].weight
            N  == quanta[1] + quanta[2]
            d  == quanta[1] * (w1 + w2) - N * w1
        IN  d <= 2 * (w1 + w2) /\ -d <= 2 * (w1 + w2)

----------------------------------------------------------------------------
(* The weight that create_task gives to a niceness                         *)

\* the niceness values custom_create_task accepts
NiceRange == -20 .. 19

\* the weights that create_task stores for the nicenesses n1 and n2
WeightQuery(n1, n2) ==
    /\ groups # <<>> /\ wq = <<>>
    /\ wq' = [n1 |-> n1, n2 |-> n2,
              w1 |-> create_task(1, n1, 1, groups, now).weight,
              w2 |-> create_task(2, n2, 1, groups, now).weight]
    /\ UNCHANGED <<now, tasks, groups, rq, balancing_lock, pc, loc, last, oops,
                   quanta, agroups, alast, outside>>

WeightNext ==
    \/ groups = <<>> /\ CreateGroup(NULL)
    \/ \E n1 \in NiceRange : \E n2 \in NiceRange : WeightQuery(n1, n2)

SpecWeight == Init /\ [][WeightNext]_vars

\* C6: weight monotonicity: for nicenesses n1 < n2 in [-20, 19] the weight of
\* an entity of niceness n1 is at least the weight of an entity of niceness
\* n2, and the weight at niceness 0 is NICE_TO_WEIGHT(0), the normalisation
\* constant of the virtual-runtime update.
WeightMonotone ==
    wq # <<>> =>
        /\ wq.n1 < wq.n2 => wq.w1 >= wq.w2
        /\ wq.n1 = 0 => wq.w1 = NICE_TO_WEIGHT(0)

----------------------------------------------------------------------------
(* Groups of task_scheduler_advanced.c                                     *)

\* init_bandwidth_control(bw, period, quota) at time t: the result and bw
init_bandwidth_control(period, quota, t) ==
    IF period < GROUP_MIN_PERIOD \/ period > GROUP_MAX_PERIOD
    THEN [res |-> -EINVAL, bw |-> NULL]
    ELSE IF quota > period \/ quota < (period \div 100) * MIN_BANDWIDTH_PERCENT
    THEN [res |-> -EINVAL, bw |-> NULL]
    ELSE [res |-> 0,
          bw  |-> [period |-> period, quota |-> quota, runtime |-> 0,
                   deadline |-> t + period, flags |-> 0,
                   stats |-> [total_runtime |-> 0, nr_throttled |-> 0]]]

\* (GROUP_MAX_PERIOD * DEFAULT_BANDWIDTH) / 100, an int expression
DefaultBandwidthQuota == CDiv(IntMul(GROUP_MAX_PERIOD, DEFAULT_BANDWIDTH), 100)

\* depth >= MAX_GROUP_DEPTH
DepthExceededOffByOne(depth) == depth > MAX_GROUP_DEPTH

DepthExceeded(depth) == depth >= MAX_GROUP_DEPTH

\* create_task_group(parent) of task_scheduler_advanced.c on the groups A at
\* time t; mem is whether kzalloc returns memory
create_task_group_advanced(A, parent, mem, t) ==
    LET depth == IF parent # NULL THEN A[parent].depth + 1 ELSE 0
        ibc   == init_bandwidth_control(GROUP_MAX_PERIOD, DefaultBandwidthQuota, t)
        g     == Len(A) + 1
        group == [bw |-> ibc.bw, depth |-> depth, parent |-> parent,
                  children |-> <<>>, tasks |-> <<>>, group_lock |-> NULL]
    IN  IF DepthExceeded(depth) THEN [res |-> -EINVAL, groups |-> A]
        ELSE IF ~mem THEN [res |-> -ENOMEM, groups |-> A]
        ELSE IF ibc.res # 0 THEN [res |-> -EINVAL, groups |-> A]
        ELSE [res |-> 0,
              groups |-> IF parent # NULL
                         THEN [Append(A, group) EXCEPT ![parent].children = Append(@, g)]
                         ELSE Append(A, group)]

\* a call of create_task_group(parent)
CreateGroupAdvanced(parent, mem) ==
    /\ LET r == create_task_group_advanced(agroups, parent, mem, now)
       IN  /\ agroups' = r.groups
           /\ alast' = [parent |-> parent, res |-> r.res]
    /\ UNCHANGED <<now, tasks, groups, rq, balancing_lock, pc, loc, last, oops,
                   quanta, wq, outside>>

\* the parents of the calls: none, the first group, the newest group
ParentInputs == {NULL} \cup (IF agroups = <<>> THEN {} ELSE {1, Len(agroups)})

GroupNext ==
    \E parent \in ParentInputs : \E mem \in BOOLEAN :
        (mem => Len(agroups) < MaxAGroups) /\ CreateGroupAdvanced(parent, mem)

SpecGroup == Init /\ [][GroupNext]_vars

AGroups == 1 .. Len(agroups)

\* the depth the group of the last call would have had
AttemptedDepth(A, call) ==
    IF call.parent = NULL THEN 0 ELSE A[call.parent].depth + 1

\* C9: create_task_group(parent) fails with -EINVAL exactly when the depth
\* of the new group, parent.depth + 1 or 0 without parent, would reach
\* MAX_GROUP_DEPTH, and then leaves the children list of the parent
\* unchanged; every group that exists has depth parent.depth + 1, or 0 as a
\* root, and a depth below MAX_GROUP_DEPTH.
GroupDepthLimit ==
    /\ [](\A g \in AGroups :
            /\ agroups[g].depth < MAX_GROUP_DEPTH
            /\ agroups[g].depth = IF agroups[g].parent = NULL THEN 0
                                  ELSE agroups[agroups[g].parent].depth + 1)
    /\ [][/\ alast'.res = -EINVAL
                <=> AttemptedDepth(agroups, alast') >= MAX_GROUP_DEPTH
          /\ alast'.res = -EINVAL => agroups' = agroups
         ]_vars

\* a call was rejected for a parent of the largest depth, which has a child
DepthRejected ==
    /\ alast.res = -EINVAL
    /\ alast.parent # NULL
    /\ agroups[alast.parent].depth = MAX_GROUP_DEPTH - 1
    /\ \E g \in AGroups : agroups[g].children # <<>>

----------------------------------------------------------------------------
(* Properties of the interleaving specification                            *)

Tasks == 1 .. Len(tasks)

\* how often task t occurs in the index
Occurrences(tree, t) == Cardinality({i \in 1 .. Len(tree) : tree[i] = t})

\* C1: run-dispatch exclusivity: for every core, the entity in the running
\* slot rq->curr, if any, is not a member of that core's tasks_timeline.
RunDispatchExclusive ==
    \A c \in CPUs :
        rq[c].curr # NULL => ~InTree(rq[c].tasks_timeline, rq[c].curr)

\* C2: after any sequence of completed calls, every entity whose state is
\* Ready is exactly once in the index of the core named by its core_id and
\* in no other core's index.
ReadyIndexedOnce ==
    (Quiescent /\ ~oops) =>
        \A t \in Tasks :
            tasks[t].state = TASK_READY =>
                \A c \in CPUs :
                    Occurrences(rq[c].tasks_timeline, t)
                        = (IF c = tasks[t].cpu THEN 1 ELSE 0)

\* the step is the locked part of load_balance() moving a task
IsMove(p) ==
    /\ pc[p] \in {"lb_move", "sched_move"}
    /\ pc'[p] # pc[p]
    /\ loc[p].busiest # loc[p].idlest
    /\ rb_first(rq[loc[p].busiest].tasks_timeline) # NULL

\* C3: load-balance single step: with different busiest and idlest cores and
\* a non-empty busiest index, load_balance() removes the entity of smallest
\* vruntime from the busiest index, sets its core to the idlest core, inserts
\* it into the idlest index, changes the two ready counts by -1 and +1, and
\* no other entity changes its core or its membership of an index.
LoadBalanceSingleStep ==
    [][\A p \in Threads : IsMove(p) =>
          LET b == loc[p].busiest
              i == loc[p].idlest
              m == rb_first(rq[b].tasks_timeline)
          IN  /\ \A o \in Tasks : InTree(rq[b].tasks_timeline, o)
                                     => tasks[m].vruntime <= tasks[o].vruntime
              /\ ~InTree(rq'[b].tasks_timeline, m)
              /\ InTree(rq'[i].tasks_timeline, m)
              /\ tasks'[m].cpu = i
              /\ rq'[b].nr_running = rq[b].nr_running - 1
              /\ rq'[i].nr_running = rq[i].nr_running + 1
              /\ \A o \in Tasks \ {m} :
                    /\ tasks'[o].cpu = tasks[o].cpu
                    /\ \A c \in CPUs : InTree(rq'[c].tasks_timeline, o)
                                          <=> InTree(rq[c].tasks_timeline, o)
      ]_vars

\* C7: custom_create_task with a niceness outside [-20, 19] or a null group
\* returns -EINVAL, and the call changes no index, ready count, running slot,
\* task or group.
CreateRejectsInvalid ==
    [][~last'.valid =>
          /\ last'.res = -EINVAL
          /\ last' # last => UNCHANGED <<tasks, groups, rq>>
      ]_vars

\* an invalid call was rejected while a task was in an index
RejectedWitness ==
    /\ last = [valid |-> FALSE, res |-> -EINVAL]
    /\ \E c \in CPUs : rq[c].tasks_timeline # <<>> /\ rq[c].nr_running > 0

\* the step is the insertion of a successful custom_create_task
IsInsert(p) == pc[p] = "create_insert" /\ pc'[p] = "idle"

\* C8: a successful custom_create_task inserts the new entity, Ready and
\* with its core set, into the index of a core whose load is minimal among
\* all cores at the moment of insertion, and increments that core's ready
\* count by one, also when several calls run concurrently.
CreateOnIdlest ==
    [][\A p \in Threads : IsInsert(p) =>
          LET t   == loc[p].task
              cpu == tasks[t].cpu
          IN  /\ tasks'[t].state = TASK_READY
              /\ InTree(rq'[cpu].tasks_timeline, t)
              /\ rq'[cpu].nr_running = rq[cpu].nr_running + 1
              /\ \A c \in CPUs :
                    ~ULt(calc_cpu_load(rq[c]), calc_cpu_load(rq[cpu]))
      ]_vars

\* the cores whose running slot holds task t
RunningOn(t) == {c \in CPUs : rq[c].curr = t}

\* C11: an entity is in state Running if and only if it is the running slot
\* rq->curr of exactly one core, and no entity is the running slot of two
\* cores at once.
RunningIffCurr ==
    \A t \in Tasks :
        /\ Cardinality(RunningOn(t)) <= 1
        /\ tasks[t].state = TASK_RUNNING <=> Cardinality(RunningOn(t)) = 1

\* thread p is inside schedule(), after it has read rq->curr and before it
\* has installed the next entity or returned
InSchedule(p) == pc[p] \in {"sched_balance", "sched_move", "sched_resume"}

\* C12: schedule() holds the run-queue lock of its core from reading
\* rq->curr to installing the next entity: while a thread is between the
\* two, no step of another thread changes the index, the running slot or
\* the ready count of its core.
ScheduleAtomic ==
    [][\A p \in Threads :
          (InSchedule(p) /\ pc'[p] = pc[p])
              => rq'[CpuOf(p)] = rq[CpuOf(p)]
      ]_vars

----------------------------------------------------------------------------
(* The locks.  The same calls with the run-queue locks held across steps:  *)
(* rq[c].lock is the thread that holds the lock of cpu c.  A step that     *)
(* takes a lock waits until the lock is free.  A group lock is taken and   *)
(* released inside one step: no other lock is taken while it is held       *)
(* (lines 125-127, 175-186, 197-200).                                      *)

\* the thread stops in a fault inside schedule(), with its run-queue lock held
Die(S, p) ==
    /\ tasks' = S.tasks /\ groups' = S.groups
    /\ rq' = [S.rq EXCEPT ![CpuOf(p)].lock = p]
    /\ pc' = [pc EXCEPT ![p] = "dead"]
    /\ UNCHANGED <<loc, oops>>

\* schedule(), lines 301-351, from spin_lock(&rq->lock) at line 301
LockSchedEnter(p) ==
    /\ pc[p] = "idle" /\ rq[CpuOf(p)].lock = NULL
    /\ LET c    == CpuOf(p)
           prev == rq[c].curr
           S1   == Requeue(Here, c, now)
           next == rb_first(S1.rq[c].tasks_timeline)
           over == OverThreshold(S1.rq[c])
       IN  IF S1.fault THEN Die(S1, p)
           ELSE IF next = NULL
           THEN \/ ToBalance(S1, p, prev)
                \/ IF over THEN ToBalance(S1, p, prev) ELSE Die(S1, p)
           ELSE IF over THEN ToBalance(S1, p, prev)
           ELSE Return(Finish(S1, c, prev, next, now), p)
    /\ UNCHANGED <<now, balancing_lock, last, quanta, agroups, alast, wq, outside>>

\* schedule(), lines 320-351, from spin_lock(&rq->lock) at line 320
LockSchedResume(p) ==
    /\ pc[p] = "sched_resume" /\ rq[CpuOf(p)].lock = NULL
    /\ LET c    == CpuOf(p)
           next == rb_first(rq[c].tasks_timeline)
       IN  IF next = NULL
           THEN \/ Return(Here, p)
                \/ Die(Here, p)
           ELSE Return(Finish(Here, c, loc[p].prev, next, now), p)
    /\ UNCHANGED <<now, balancing_lock, last, quanta, agroups, alast, wq, outside>>

\* load_balance(), line 225: spin_lock(&busiest->lock)
LockBusiest(p) ==
    /\ pc[p] \in {"lb_move", "sched_move"}
    /\ rq[loc[p].busiest].lock = NULL
    /\ rq' = [rq EXCEPT ![loc[p].busiest].lock = p]
    /\ pc' = [pc EXCEPT ![p] = IF pc[p] = "lb_move" THEN "lb_idlest"
                                                    ELSE "sched_idlest"]
    /\ UNCHANGED <<now, tasks, groups, balancing_lock, loc, last, oops, quanta,
                   agroups, alast, wq, outside>>

\* load_balance(), lines 226-242, from spin_lock(&idlest->lock)
LockIdlestMove(p) ==
    /\ pc[p] \in {"lb_idlest", "sched_idlest"}
    /\ rq[loc[p].idlest].lock = NULL
    /\ LET m == MoveTask(tasks, rq, loc[p].busiest, loc[p].idlest)
       IN  /\ tasks' = m.tasks
           /\ rq' = [m.rq EXCEPT ![loc[p].busiest].lock = NULL]
    /\ balancing_lock' = NULL
    /\ pc' = [pc EXCEPT ![p] = AfterBalance(p)]
    /\ loc' = [loc EXCEPT ![p].busiest = 0, ![p].idlest = 0]
    /\ UNCHANGED <<now, groups, last, oops, quanta, agroups, alast, wq, outside>>

\* custom_create_task, lines 399-405, from spin_lock(&cpu_rqs[cpu].lock)
LockCreateInsert(p) ==
    /\ pc[p] = "create_insert"
    /\ rq[tasks[loc[p].task].cpu].lock = NULL
    /\ CreateInsert(p)

LockNext ==
    \/ \E p \in Threads : LockSchedEnter(p)
    \/ \E p \in Threads : LockSchedResume(p)
    \/ \E p \in Threads : LBFind(p)
    \/ \E p \in Threads : LockBusiest(p)
    \/ \E p \in Threads : LockIdlestMove(p)
    \/ \E p \in Threads : \E nice \in NiceInputs : \E group \in GroupInputs :
          CreateCall(p, nice, group, Len(tasks) < MaxTasks)
    \/ \E p \in Threads : LockCreateInsert(p)
    \/ \E parent \in GroupInputs : Len(groups) < MaxGroups /\ CreateGroup(parent)

SpecLock == Init /\ [][LockNext]_vars

\* the thread that holds the lock the next step of thread p takes, NULL when
\* the lock is free or the step takes no lock
Holder(p) ==
    CASE pc[p] = "create_insert" -> rq[tasks[loc[p].task].cpu].lock
      [] pc[p] = "sched_resume"  -> rq[CpuOf(p)].lock
      [] pc[p] = "sched_balance" -> balancing_lock
      [] pc[p] \in {"lb_move", "sched_move"} -> rq[loc[p].busiest].lock
      [] pc[p] \in {"lb_idlest", "sched_idlest"} -> rq[loc[p].idlest].lock
      [] OTHER -> NULL

\* the thread at the end of the chain of holders that starts at thread p,
\* NULL when the chain has not ended after n holders
RECURSIVE LastHolder(_, _)
LastHolder(p, n) ==
    IF Holder(p) = NULL THEN p
    ELSE IF n = 0 THEN NULL
    ELSE LastHolder(Holder(p), n - 1)

\* C13: deadlock freedom: no set of threads waits in a cycle on the
\* balancing lock, the run-queue locks and the group locks, and every started
\* operation completes: a thread inside a call either can take its next step
\* or waits for a lock whose chain of holders ends at a thread that can.
DeadlockFree ==
    \A p \in Threads :
        pc[p] \notin {"idle", "dead"} =>
            /\ LastHolder(p, NCPU) # NULL
            /\ pc[LastHolder(p, NCPU)] # "dead"

----------------------------------------------------------------------------
(* A tree of groups and one entity in one of them, driven by the timer tick *)

TreeNext ==
    \/ \E parent \in GroupInputs : Len(groups) < TreeGroups /\ CreateGroup(parent)
    \/ \E p \in Threads : \E group \in GroupInputs :
          Alone(p) /\ CreateCall(p, 0, group, tasks = <<>>)
    \/ \E p \in Threads : CreateInsert(p)
    \/ \E p \in Threads :
          /\ rq[CpuOf(p)].curr = NULL
          /\ rb_first(rq[CpuOf(p)].tasks_timeline) # NULL
          /\ SchedEnter(p)
    \/ \E p \in Threads :
          /\ rq[CpuOf(p)].curr # NULL
          /\ now < BootTime + BWTicks * Quantum
          /\ TickSchedule(p) /\ UNCHANGED quanta

SpecTree == Init /\ [][TreeNext]_vars

\* the groups a walk from group g along group->parent visits in its first n
\* steps
RECURSIVE Ancestors(_, _, _)
Ancestors(G, g, n) ==
    IF g = NULL \/ n = 0 THEN <<>>
    ELSE <<g>> \o Ancestors(G, G[g].parent, n - 1)

\* the groups on the walk from the group of task t to the root
PathOf(t) ==
    {Ancestors(groups, tasks[t].group, Len(groups))[i] :
        i \in 1 .. Len(Ancestors(groups, tasks[t].group, Len(groups)))}

\* C14: the parent relation over the task groups is acyclic in every
\* reachable state: the walk from any group along group->parent reaches the
\* root after at most as many steps as there are groups, so the walks of
\* update_group_runtime visit each ancestor once: the groups on the path of
\* the one entity have all been charged the same time, the others none.
GroupTreeAcyclic ==
    /\ \A g \in 1 .. Len(groups) :
          Len(Ancestors(groups, g, Len(groups) + 1)) <= Len(groups)
    /\ \A t \in Tasks : \A g \in 1 .. Len(groups) :
          groups[g].vruntime =
              IF g \in PathOf(t) THEN groups[tasks[t].group].vruntime ELSE 0

\* an entity whose group has a parent and a grandparent has been charged
ChargedChain ==
    /\ Len(tasks) = 1
    /\ Cardinality(PathOf(1)) >= 3
    /\ groups[tasks[1].group].vruntime > 0

----------------------------------------------------------------------------
(* Unloading the scheduler                                                 *)

\* custom_scheduler_exit, lines 425-429, on one index: the entities that the
\* loop erases and frees
RECURSIVE Drained(_)
Drained(tree) ==
    IF rb_first(tree) = NULL THEN {}
    ELSE {rb_first(tree)} \cup Drained(rb_erase(tree, rb_first(tree)))

\* custom_scheduler_exit, lines 417-435; the module is unloaded when no call
\* is in progress
SchedulerExit ==
    /\ ~oops /\ Quiescent /\ ~freed.cpu_rqs
    /\ rq' = [c \in CPUs |-> [rq[c] EXCEPT !.tasks_timeline = <<>>]]
    /\ freed' = [tasks   |-> UNION {Drained(rq[c].tasks_timeline) : c \in CPUs},
                 cpu_rqs |-> TRUE]
    /\ UNCHANGED <<now, tasks, groups, balancing_lock, pc, loc, last, oops, quanta,
                   agroups, alast, wq, data, thr, inner>>

\* calls into the scheduler while it is loaded, then its unloading
ExitNext ==
    \/ ~freed.cpu_rqs /\ Next
    \/ SchedulerExit

SpecExit == Init /\ [][ExitNext]_vars

\* C15: teardown: removing the entities, one of which is Running, clears the
\* running slot of its core; afterwards no running slot and no index refers
\* to an entity, and every entity has been removed.
TeardownClean ==
    freed.cpu_rqs =>
        /\ \A c \in CPUs : rq[c].curr = NULL /\ rq[c].tasks_timeline = <<>>
        /\ \A t \in Tasks : t \in freed.tasks

----------------------------------------------------------------------------
(* Properties of the accounting                                            *)

----------------------------------------------------------------------------
(* spinlock.c under spinlock_test.c.  A step is one access to shared       *)
(* memory; the accesses are volatile or interlocked and fenced by smp_mb,  *)
(* so they take effect in program order.  The tests take far fewer than    *)
(* 2^32 tickets and increments: no counter of them wraps.                  *)

\* the variables of the scheduler
sched == <<now, tasks, groups, rq, balancing_lock, pc, loc, last, oops, quanta,
           agroups, alast, wq, freed, inner>>

\* a thread at the top of its loop: for (i = 0; i < 1000000; i++)
LoopTop(i, first) ==
    [pc |-> IF i < SpinIters THEN first ELSE "done", i |-> i, ticket |-> 0,
     tmp |-> 0]

\* all threads of the running test have returned
Joined == \A k \in TestThreads : thr[k].pc = "done"

\* main(), lines 78-83: spin_lock_init, counter = 0, thrd_create
StartBasic ==
    /\ data.test = "start"
    /\ data' = [data EXCEPT !.test = "basic", !.counter = 0, !.basic_lock = 0]
    /\ thr' = [k \in TestThreads |-> LoopTop(0, "xchg")]
    /\ UNCHANGED sched

\* main(), lines 85-90: thrd_join of every thread, then the counter is printed
JoinBasic ==
    /\ data.test = "basic" /\ Joined
    /\ data' = [data EXCEPT !.test = "basic_done"]
    /\ UNCHANGED <<sched, thr>>

\* main(), lines 113-118: raw_spin_lock_init, counter = 0, thrd_create; the
\* reader-writer test before it uses neither basic_lock nor raw_lock
StartRaw ==
    /\ data.test = "basic_done"
    /\ data' = [data EXCEPT !.test = "raw", !.counter = 0,
                            !.raw_lock = [raw_lock |-> 0, owner_cpu |-> -1,
                                          next_ticket |-> 0, owner_ticket |-> 0]]
    /\ thr' = [k \in TestThreads |-> LoopTop(0, "take")]
    /\ UNCHANGED sched

\* main(), lines 120-125
JoinRaw ==
    /\ data.test = "raw" /\ Joined
    /\ data' = [data EXCEPT !.test = "raw_done"]
    /\ UNCHANGED <<sched, thr>>

\* !InterlockedExchange(&lock->lock, 1) that takes any answer for success
AcquiredAlways(old) == TRUE

\* spin_lock, line 43: !InterlockedExchange(&lock->lock, 1) on the old value
Acquired(old) == old = 0

\* spin_lock, line 43
SpinXchg(k) ==
    /\ thr[k].pc = "xchg"
    /\ data' = [data EXCEPT !.basic_lock = 1]
    /\ thr' = [thr EXCEPT ![k].pc = IF Acquired(data.basic_lock) THEN "load"
                                                                 ELSE "wait"]
    /\ UNCHANGED sched

\* spin_lock, lines 49-51: the loop ends when it reads lock->lock as 0
SpinWait(k) ==
    /\ thr[k].pc = "wait"
    /\ data.basic_lock = 0
    /\ thr' = [thr EXCEPT ![k].pc = "xchg"]
    /\ UNCHANGED <<sched, data>>

\* data->counter++, lines 20 and 62: the load
CounterLoad(k) ==
    /\ thr[k].pc = "load"
    /\ thr' = [thr EXCEPT ![k].tmp = data.counter, ![k].pc = "store"]
    /\ UNCHANGED <<sched, data>>

\* data->counter++, lines 20 and 62: the store
CounterStore(k) ==
    /\ thr[k].pc = "store"
    /\ data' = [data EXCEPT !.counter = thr[k].tmp + 1]
    /\ thr' = [thr EXCEPT ![k].pc = "unlock"]
    /\ UNCHANGED sched

\* spin_unlock, lines 56-59, and the end of the loop body
SpinUnlock(k) ==
    /\ data.test = "basic" /\ thr[k].pc = "unlock"
    /\ data' = [data EXCEPT !.basic_lock = 0]
    /\ thr' = [thr EXCEPT ![k] = LoopTop(thr[k].i + 1, "xchg")]
    /\ UNCHANGED sched

\* InterlockedIncrement(&v): the new value
InterlockedIncrement(v) == v + 1

\* raw_spin_lock, line 165
RawTake(k) ==
    /\ thr[k].pc = "take"
    /\ data' = [data EXCEPT
                  !.raw_lock.next_ticket = InterlockedIncrement(@)]
    /\ thr' = [thr EXCEPT
                 ![k].ticket = InterlockedIncrement(data.raw_lock.next_ticket) - 1,
                 ![k].pc = "turn"]
    /\ UNCHANGED sched

\* the turn of a ticket has come when the owner ticket has not passed it
TurnNotPassed(owner_ticket, ticket) == owner_ticket <= ticket

\* raw_spin_lock, line 168: the loop ends when owner_ticket == ticket
Turn(owner_ticket, ticket) == owner_ticket = ticket

\* raw_spin_lock, lines 168-174; thread k runs on processor k - 1
RawTurn(k) ==
    /\ thr[k].pc = "turn"
    /\ Turn(data.raw_lock.owner_ticket, thr[k].ticket)
    /\ data' = [data EXCEPT !.raw_lock.owner_cpu = k - 1]
    /\ thr' = [thr EXCEPT ![k].pc = "load"]
    /\ UNCHANGED sched

\* raw_spin_unlock, lines 177-181, and the end of the loop body
RawUnlock(k) ==
    /\ data.test = "raw" /\ thr[k].pc = "unlock"
    /\ data' = [data EXCEPT
                  !.raw_lock.owner_cpu = -1,
                  !.raw_lock.owner_ticket = InterlockedIncrement(@)]
    /\ thr' = [thr EXCEPT ![k] = LoopTop(thr[k].i + 1, "take")]
    /\ UNCHANGED sched

SpinNext ==
    \/ StartBasic
    \/ JoinBasic
    \/ StartRaw
    \/ JoinRaw
    \/ \E k \in TestThreads : SpinXchg(k)
    \/ \E k \in TestThreads : SpinWait(k)
    \/ \E k \in TestThreads : CounterLoad(k)
    \/ \E k \in TestThreads : CounterStore(k)
    \/ \E k \in TestThreads : SpinUnlock(k)
    \/ \E k \in TestThreads : RawTake(k)
    \/ \E k \in TestThreads : RawTurn(k)
    \/ \E k \in TestThreads : RawUnlock(k)

SpecSpin == Init /\ [][SpinNext]_vars

\* the threads between their lock call and their unlock call
InCritical == {k \in TestThreads : thr[k].pc \in {"load", "store", "unlock"}}

\* C17: spin_lock and spin_unlock give mutual exclusion: at most one thread
\* is between spin_lock and spin_unlock, and when SpinThreads threads have
\* each done SpinIters times lock, counter++, unlock, the counter is
\* SpinThreads * SpinIters.
SpinMutualExclusion ==
    /\ data.test = "basic" => Cardinality(InCritical) <= 1
    /\ data.test = "basic_done" => data.counter = SpinThreads * SpinIters

\* the threads of the basic test have been joined
BasicJoined == data.test = "basic_done" /\ data.counter > 0

\* C18: the ticket lock has one holder at a time and serves the threads in
\* ticket order: the holder's ticket is owner_ticket, the tickets of the
\* waiting threads are distinct and between owner_ticket and next_ticket;
\* owner_ticket never exceeds next_ticket; and when SpinThreads threads have
\* each done SpinIters times lock, counter++, unlock, the counter is
\* SpinThreads * SpinIters.
TicketOrder ==
    /\ data.test = "raw" =>
          /\ Cardinality(InCritical) <= 1
          /\ \A k \in InCritical : thr[k].ticket = data.raw_lock.owner_ticket
          /\ \A k \in TestThreads : thr[k].pc = "turn" =>
                /\ thr[k].ticket >= data.raw_lock.owner_ticket
                /\ thr[k].ticket < data.raw_lock.next_ticket
                /\ \A j \in TestThreads \ {k} :
                      thr[j].pc \in {"turn", "load", "store", "unlock"}
                          => thr[j].ticket # thr[k].ticket
    /\ data.test \in {"raw", "raw_done"} =>
          data.raw_lock.owner_ticket <= data.raw_lock.next_ticket
    /\ data.test = "raw_done" => data.counter = SpinThreads * SpinIters

\* the threads of the raw test have been joined, every ticket served
RawJoined ==
    /\ data.test = "raw_done"
    /\ data.raw_lock.owner_ticket = SpinThreads * SpinIters

\* C19: preemption rollback: when schedule() on a core with a running entity
\* prev finds should_preempt(prev, next) false, it returns with prev still
\* the running entity of the core, prev.state = Running and prev not in the
\* index.
PreemptRollback ==
    [][\A c \in CPUs :
          LET prev == rq[c].curr
              S1   == Requeue(Here, c, now')
              next == rb_first(S1.rq[c].tasks_timeline)
          IN  (/\ prev # NULL /\ tasks' # tasks
               /\ ~S1.fault /\ next # NULL
               /\ ~should_preempt(S1.tasks, S1.groups, prev, next, now').res)
                  => /\ rq'[c].curr = prev
                     /\ tasks'[prev].state = TASK_RUNNING
                     /\ ~InTree(rq'[c].tasks_timeline, prev)
      ]_vars

\* C20: execution time is accounted exactly once: the clock advances only in
\* a timer tick that calls schedule() on the core of the entity, so every
\* step adds to the sum_exec_runtime of the running entity of a core exactly
\* the time by which the clock advances, also when the entity keeps running
\* across consecutive schedule() calls.
AccountedOnce ==
    [][\A c \in CPUs :
          LET prev == rq[c].curr
          IN  prev # NULL =>
                  tasks'[prev].sum_exec_runtime
                      = tasks[prev].sum_exec_runtime + (now' - now)
      ]_vars

----------------------------------------------------------------------------
(* Calls of single functions.  The calls of custom_create_task, schedule() *)
(* and load_balance(), one after the other, bring the scheduler into a     *)
(* state; one function is then called on that state, and wq records the    *)
(* call, the state before it and what the function returns or leaves.      *)

\* the calls that bring the scheduler into a state
CallBase ==
    \/ \E p \in Threads :
          Alone(p) /\ Accountable(CpuOf(p), 2 * MaxTicks * Quantum) /\ SchedEnter(p)
    \/ \E p \in Threads : Alone(p) /\ SchedResume(p)
    \/ \E p \in Threads : Alone(p) /\ LBFind(p)
    \/ \E p \in Threads : Alone(p) /\ LBMove(p)
    \/ \E p \in Threads : \E nice \in NiceInputs : \E group \in GroupInputs :
          Alone(p) /\ CreateCall(p, nice, group, Len(tasks) < MaxTasks)
    \/ \E p \in Threads : Alone(p) /\ CreateInsert(p)
    \/ \E parent \in GroupInputs : Len(groups) < MaxGroups /\ CreateGroup(parent)
    \/ now < BootTime + MaxTicks * Quantum /\ Tick

\* the scheduler is between two calls and no function has been called on it
Callable == ~oops /\ Quiescent /\ wq = <<>>

\* update_curr_advanced(task, rq) for the run queue of the task, dt after now
AccountCall(task, dt) ==
    /\ Callable
    /\ wq' = [fn |-> "update_curr_advanced", task |-> task, at |-> now + dt,
              pre |-> Here,
              post |-> update_curr_advanced(Here, task, tasks[task].cpu, now + dt)]
    /\ UNCHANGED <<now, tasks, groups, rq, balancing_lock, pc, loc, last, oops,
                   quanta, agroups, alast, outside>>

AccountNext ==
    \/ wq = <<>> /\ CallBase
    \/ \E task \in Tasks : \E dt \in {0, Quantum} : AccountCall(task, dt)

SpecAccount == Init /\ [][AccountNext]_vars

\* C21: update_curr_advanced on an entity with no recorded exec_start changes
\* nothing: the entity, every group and the run queue of the core are as
\* before the call.
NoExecStartNoChange ==
    (/\ wq # <<>>
     /\ wq.fn = "update_curr_advanced"
     /\ wq.pre.tasks[wq.task].exec_start = 0)
        => wq.post = wq.pre

\* update_curr_advanced has been called, one clock step after the creation
\* of the entity, on an entity that was never dispatched
NeverDispatchedCalled ==
    /\ wq # <<>>
    /\ wq.fn = "update_curr_advanced"
    /\ wq.pre.tasks[wq.task].exec_start = 0
    /\ wq.at > BootTime

\* the deltas of the calls of update_group_runtime
DeltaInputs == {1, Quantum}

\* update_group_runtime(task, delta)
UpdateCall(task, delta) ==
    /\ Callable
    /\ wq' = [fn |-> "update_group_runtime", task |-> task, delta |-> delta,
              pre |-> groups,
              post |-> update_group_runtime(tasks, groups, task, delta)]
    /\ UNCHANGED <<now, tasks, groups, rq, balancing_lock, pc, loc, last, oops,
                   quanta, agroups, alast, outside>>

TreeCallNext ==
    \/ wq = <<>> /\ TreeNext
    \/ \E task \in Tasks : \E delta \in DeltaInputs : UpdateCall(task, delta)

SpecTreeCall == Init /\ [][TreeCallNext]_vars

\* C22: update_group_runtime(task, delta) adds exactly delta to the runtime
\* and to the virtual runtime of every group on the path from the group of
\* the task to the root, and changes no group that is not on that path.
UpdateChargesPath ==
    (wq # <<>> /\ wq.fn = "update_group_runtime") =>
        /\ Len(wq.post) = Len(wq.pre)
        /\ \A g \in 1 .. Len(wq.pre) :
              IF g \in PathOf(wq.task)
              THEN /\ wq.post[g].runtime = wq.pre[g].runtime + wq.delta
                   /\ wq.post[g].vruntime = wq.pre[g].vruntime + wq.delta
                   /\ wq.post[g].parent = wq.pre[g].parent
                   /\ wq.post[g].quota = wq.pre[g].quota
                   /\ wq.post[g].period = wq.pre[g].period
              ELSE wq.post[g] = wq.pre[g]

\* update_group_runtime has been called for an entity whose group has a
\* parent, while a group exists that is not on the path
PathAndOthersCalled ==
    /\ wq # <<>>
    /\ wq.fn = "update_group_runtime"
    /\ Cardinality(PathOf(wq.task)) >= 2
    /\ Cardinality(PathOf(wq.task)) < Len(groups)

----------------------------------------------------------------------------
(* Two cores account execution at the same time: the walks of              *)
(* update_group_runtime, one access to a group per step                    *)

\* the calls that set up groups and one running entity per core
WalkBase ==
    \/ \E parent \in GroupInputs : Len(groups) < WalkGroups /\ CreateGroup(parent)
    \/ \E p \in Threads : \E group \in GroupInputs :
          Alone(p) /\ CreateCall(p, 0, group, Len(tasks) < MaxTasks)
    \/ \E p \in Threads : CreateInsert(p)
    \/ \E p \in Threads :
          /\ rq[CpuOf(p)].curr = NULL
          /\ rb_first(rq[CpuOf(p)].tasks_timeline) # NULL
          /\ SchedEnter(p)

\* what the walk steps leave alone
beside == <<now, tasks, rq, balancing_lock, pc, loc, last, oops, quanta, agroups,
            alast, wq, freed, data, thr, atasks, att, bwc>>

\* update_group_runtime(task, delta) begins for the running entity of the
\* core of thread p
WalkStart(p, delta) ==
    /\ ~oops /\ Quiescent
    /\ walk[p].pc = "none"
    /\ rq[CpuOf(p)].curr # NULL
    /\ walk' = [walk EXCEPT ![p] =
                  [pc |-> "lock", task |-> rq[CpuOf(p)].curr, delta |-> delta,
                   group |-> tasks[rq[CpuOf(p)].curr].group, tmp |-> 0]]
    /\ UNCHANGED <<groups, beside>>

\* a spin_lock of a group lock that does not wait
GroupLockFreeAlways(G, g) == TRUE

\* spin_lock(&group->group_lock) returns when the lock is free
GroupLockFree(G, g) == G[g].group_lock = NULL

\* update_group_runtime, line 197
WalkLock(p) ==
    /\ walk[p].pc = "lock"
    /\ GroupLockFree(groups, walk[p].group)
    /\ groups' = [groups EXCEPT ![walk[p].group].group_lock = p]
    /\ walk' = [walk EXCEPT ![p].pc = "load"]
    /\ UNCHANGED beside

\* update_group_runtime, line 198: the read of group->runtime += delta
WalkLoad(p) ==
    /\ walk[p].pc = "load"
    /\ walk' = [walk EXCEPT ![p].tmp = groups[walk[p].group].runtime,
                            ![p].pc = "store"]
    /\ UNCHANGED <<groups, beside>>

\* update_group_runtime, lines 198-199: the write of group->runtime += delta,
\* and group->vruntime += delta
WalkStore(p) ==
    /\ walk[p].pc = "store"
    /\ groups' = [groups EXCEPT
                    ![walk[p].group].runtime = walk[p].tmp + walk[p].delta,
                    ![walk[p].group].vruntime = @ + walk[p].delta,
                    ![walk[p].group].top =
                        IF walk[p].tmp + walk[p].delta > @
                        THEN walk[p].tmp + walk[p].delta ELSE @]
    /\ walk' = [walk EXCEPT ![p].pc = "unlock"]
    /\ UNCHANGED beside

\* update_group_runtime, lines 200-201
WalkUnlock(p) ==
    /\ walk[p].pc = "unlock"
    /\ groups' = [groups EXCEPT ![walk[p].group].group_lock = NULL]
    /\ walk' = [walk EXCEPT
                  ![p].group = groups[walk[p].group].parent,
                  ![p].pc = IF groups[walk[p].group].parent = NULL THEN "done"
                                                                  ELSE "lock"]
    /\ UNCHANGED beside

\* no walk has begun
NoWalks == \A p \in Threads : walk[p].pc = "none"

WalkNext ==
    \/ NoWalks /\ WalkBase
    \/ \E p \in Threads : \E delta \in DeltaInputs : WalkStart(p, delta)
    \/ \E p \in Threads : WalkLock(p)
    \/ \E p \in Threads : WalkLoad(p)
    \/ \E p \in Threads : WalkStore(p)
    \/ \E p \in Threads : WalkUnlock(p)

SpecWalk == Init /\ [][WalkNext]_vars

\* the sum of the deltas of the finished walks of threads 1 .. n that have
\* group g on their path
RECURSIVE Charged(_, _)
Charged(n, g) ==
    IF n = 0 THEN 0
    ELSE Charged(n - 1, g)
           + (IF walk[n].pc = "done" /\ g \in PathOf(walk[n].task)
              THEN walk[n].delta ELSE 0)

\* C23: no lost update on shared ancestors: when the cores have accounted
\* execution concurrently with deltas d1 and d2 and no reset intervenes, the
\* runtime of every group has increased, from 0, by the deltas of exactly the
\* walks that pass it: a shared ancestor by d1 + d2, in every interleaving.
NoLostUpdate ==
    (\A p \in Threads : walk[p].pc \in {"none", "done"}) =>
        \A g \in 1 .. Len(groups) : groups[g].runtime = Charged(NCPU, g)

\* two walks, of entities of different groups, have passed a shared ancestor
SharedAncestorCharged ==
    /\ \A p \in Threads : walk[p].pc = "done"
    /\ tasks[walk[1].task].group # tasks[walk[2].task].group
    /\ PathOf(walk[1].task) \cap PathOf(walk[2].task) # {}

\* C24: each accounting of delta executed time leaves the entity's vruntime
\* increased, never decreased, by exactly floor(delta * BASE_WEIGHT / weight):
\* the increase v is the one number with v * weight <= delta * BASE_WEIGHT <
\* (v + 1) * weight, which is no larger for a higher weight.
VruntimeByWeight ==
    (/\ wq # <<>> /\ wq.fn = "update_curr_advanced"
     /\ wq.pre.tasks[wq.task].exec_start # 0) =>
        LET tk == wq.pre.tasks[wq.task]
            delta == wq.at - tk.exec_start
            v == wq.post.tasks[wq.task].vruntime - tk.vruntime
        IN  /\ ~wq.post.fault
            /\ v >= 0
            /\ v * tk.weight <= delta * NICE_TO_WEIGHT(0)
            /\ delta * NICE_TO_WEIGHT(0) < (v + 1) * tk.weight

----------------------------------------------------------------------------
(* Calls of should_preempt                                                 *)

\* should_preempt(curr, next) on the entities of the scheduler, curr absent
\* or another entity than next
PreemptCall(curr, next) ==
    /\ Callable
    /\ curr # next
    /\ wq' = [fn |-> "should_preempt", curr |-> curr, next |-> next, at |-> now,
              pre |-> Here,
              res |-> should_preempt(tasks, groups, curr, next, now).res]
    /\ UNCHANGED <<now, tasks, groups, rq, balancing_lock, pc, loc, last, oops,
                   quanta, agroups, alast, outside>>

PreemptNext ==
    \/ wq = <<>> /\ CallBase
    \/ \E curr \in Tasks \cup {NULL} : \E next \in Tasks : PreemptCall(curr, next)

SpecPreempt == Init /\ [][PreemptNext]_vars

DispatchSmallest ==
    [][\A t \in Tasks :
          (/\ tasks[t].state = TASK_READY
           /\ t \in DOMAIN tasks'
           /\ tasks'[t].state = TASK_RUNNING) =>
              \A u \in DOMAIN tasks' :
                  (/\ u # t
                   /\ tasks'[u].state = TASK_READY
                   /\ tasks'[u].cpu = tasks'[t].cpu) =>
                      tasks'[t].vruntime <= tasks'[u].vruntime]_vars

----------------------------------------------------------------------------
(* Dispatches at chosen times                                              *)

\* the time that passes before a dispatch
DispatchDelays == {0, BANDWIDTH_PERIOD \div 2, BANDWIDTH_PERIOD, 2 * BANDWIDTH_PERIOD}

\* schedule(), lines 336-349, dt after now on the leftmost entity of cpu c
DispatchCall(c, dt) ==
    /\ Callable
    /\ rb_first(rq[c].tasks_timeline) # NULL
    /\ wq' = [fn |-> "dispatch", task |-> rb_first(rq[c].tasks_timeline),
              at |-> now + dt, pre |-> Here,
              post |-> Dispatch(Here, c, rb_first(rq[c].tasks_timeline), now + dt)]
    /\ UNCHANGED <<now, tasks, groups, rq, balancing_lock, pc, loc, last, oops,
                   quanta, agroups, alast, outside>>

DispatchNext ==
    \/ wq = <<>> /\ CallBase
    \/ \E c \in CPUs : \E dt \in DispatchDelays : DispatchCall(c, dt)

SpecDispatch == Init /\ [][DispatchNext]_vars

\* C27: a dispatch of an entity whose deadline has passed (now >= deadline)
\* sets runtime_left to the quota share of its group and deadline to now +
\* period; a dispatch before the deadline leaves both unchanged; in both
\* cases the entity afterwards has deadline > now, exec_start = now and
\* state Running.
DispatchRearms ==
    (wq # <<>> /\ wq.fn = "dispatch") =>
        LET old == wq.pre.tasks[wq.task]
            new == wq.post.tasks[wq.task]
        IN  /\ IF wq.at >= old.deadline
               THEN /\ new.runtime_left
                          = QuotaShare(wq.pre.groups[old.group].quota)
                    /\ new.deadline = wq.at + wq.pre.groups[old.group].period
               ELSE /\ new.runtime_left = old.runtime_left
                    /\ new.deadline = old.deadline
            /\ new.deadline > wq.at
            /\ new.exec_start = wq.at
            /\ new.state = TASK_RUNNING

\* an entity was dispatched after its deadline, with another runtime_left
\* than the quota share
DispatchedPastDeadline ==
    /\ wq # <<>> /\ wq.fn = "dispatch"
    /\ wq.at >= wq.pre.tasks[wq.task].deadline
    /\ wq.pre.tasks[wq.task].runtime_left
          # QuotaShare(wq.pre.groups[wq.pre.tasks[wq.task].group].quota)

----------------------------------------------------------------------------
(* Calls of load_balance                                                   *)

\* load_balance(), lines 206-243, as one call on S = [tasks, groups, rq, fault]
load_balance(S) ==
    LET busiest_cpu == find_busiest_cpu(S.rq)
        idlest_cpu  == find_idlest_cpu(S.rq)
    IN  IF busiest_cpu = idlest_cpu THEN S
        ELSE LET m == MoveTask(S.tasks, S.rq, busiest_cpu, idlest_cpu)
             IN  [S EXCEPT !.tasks = m.tasks, !.rq = m.rq]

BalanceCall ==
    /\ Callable
    /\ wq' = [fn |-> "load_balance", pre |-> Here,
              busiest |-> find_busiest_cpu(rq), idlest |-> find_idlest_cpu(rq),
              post |-> load_balance(Here)]
    /\ UNCHANGED <<now, tasks, groups, rq, balancing_lock, pc, loc, last, oops,
                   quanta, agroups, alast, outside>>

BalanceNext ==
    \/ wq = <<>> /\ CallBase
    \/ BalanceCall

SpecBalance == Init /\ [][BalanceNext]_vars

\* all cores have the same load
SameLoad(r) ==
    \A c1 \in CPUs : \A c2 \in CPUs : calc_cpu_load(r[c1]) = calc_cpu_load(r[c2])

\* C28: find_busiest_cpu() equals find_idlest_cpu() exactly when all cores
\* have the same load, and load_balance() then moves no entity: every index,
\* every nr_running and the cpu of every entity are as before the call.
BalancedNoMove ==
    (wq # <<>> /\ wq.fn = "load_balance") =>
        /\ (wq.busiest = wq.idlest) <=> SameLoad(wq.pre.rq)
        /\ wq.busiest = wq.idlest =>
              /\ wq.post.tasks = wq.pre.tasks
              /\ wq.post.rq = wq.pre.rq

\* load_balance() was called with an entity in each index and equal loads
BalancedCalled ==
    /\ wq # <<>> /\ wq.fn = "load_balance"
    /\ SameLoad(wq.pre.rq)
    /\ \A c \in CPUs : /\ wq.pre.rq[c].nr_running > 0
                       /\ wq.pre.rq[c].tasks_timeline # <<>>

----------------------------------------------------------------------------
(* A bandwidth_control record through its window                           *)

BandwidthSteps == 6     \* clock steps of half a period
BandwidthUses == 4      \* calls of update_bandwidth_usage

\* a window test that the deadline itself does not pass
WindowEndedAfter(t, deadline) == t > deadline

\* now >= bw->deadline, lines 37 and 64
WindowEnded(t, deadline) == t >= deadline

\* flags & GROUP_THROTTLED
Throttled(flags) == (flags \div GROUP_THROTTLED) % 2 = 1

\* lines 37-41 and 64-68: the new window
NewWindow(bw, t) ==
    IF WindowEnded(t, bw.deadline)
    THEN [bw EXCEPT !.runtime = 0, !.deadline = t + bw.period,
                    !.flags = IF Throttled(@) THEN @ - GROUP_THROTTLED ELSE @]
    ELSE bw

\* update_bandwidth_usage(bw, runtime) at time t
update_bandwidth_usage(bw, runtime, t) ==
    LET b1 == NewWindow(bw, t)
        b2 == [b1 EXCEPT !.runtime = @ + runtime,
                         !.stats.total_runtime = @ + runtime]
    IN  IF b2.runtime > b2.quota /\ ~Throttled(b2.flags)
        THEN [b2 EXCEPT !.flags = @ + GROUP_THROTTLED,
                        !.stats.nr_throttled = @ + 1]
        ELSE b2

\* check_bandwidth_limit(bw) at time t: the answer and the record
check_bandwidth_limit(bw, t) ==
    LET b1 == NewWindow(bw, t)
    IN  [res |-> b1.runtime < b1.quota, bw |-> b1]

\* the periods and quotas callers initialise a record with
PeriodInputs == {BANDWIDTH_PERIOD, GROUP_MAX_PERIOD}
QuotaInputs == {2 * Quantum}

\* what the calls on the record leave alone
nobw == <<tasks, groups, rq, balancing_lock, pc, loc, last, oops, quanta, agroups,
          alast, wq, freed, data, thr, walk, atasks, att>>

\* init_bandwidth_control(&bw, period, quota) by a caller
BandwidthInit(period, quota) ==
    /\ bwc.bw = <<>>
    /\ LET r == init_bandwidth_control(period, quota, now)
       IN  /\ r.res = 0
           /\ bwc' = [bw |-> r.bw, chk |-> <<>>]
    /\ UNCHANGED <<now, nobw>>

\* update_bandwidth_usage(&bw, runtime)
BandwidthUse(runtime) ==
    /\ bwc.bw # <<>>
    /\ bwc.bw.stats.total_runtime < BandwidthUses * Quantum
    /\ bwc' = [bwc EXCEPT !.bw = update_bandwidth_usage(@, runtime, now)]
    /\ UNCHANGED <<now, nobw>>

\* check_bandwidth_limit(&bw)
BandwidthCheck ==
    /\ bwc.bw # <<>>
    /\ LET r == check_bandwidth_limit(bwc.bw, now)
       IN  bwc' = [bw |-> r.bw,
                   chk |-> [pre |-> bwc.bw, at |-> now, res |-> r.res,
                            post |-> r.bw]]
    /\ UNCHANGED <<now, nobw>>

\* half a period passes
BandwidthElapse ==
    /\ now < BootTime + BandwidthSteps * (BANDWIDTH_PERIOD \div 2)
    /\ now' = now + BANDWIDTH_PERIOD \div 2
    /\ UNCHANGED <<bwc, nobw>>

BandwidthNext ==
    \/ \E period \in PeriodInputs : \E quota \in QuotaInputs :
          BandwidthInit(period, quota)
    \/ BandwidthUse(Quantum)
    \/ BandwidthCheck
    \/ BandwidthElapse

SpecBandwidth == Init /\ [][BandwidthNext]_vars

\* C29: on a record whose runtime has reached the quota, a call of
\* check_bandwidth_limit before the deadline of the window answers false and
\* leaves runtime and deadline unchanged; a call with now >= deadline, the
\* first such call, resets runtime to 0, sets deadline to now + period,
\* clears GROUP_THROTTLED and answers true.
ExhaustedUntilDeadline ==
    (bwc.chk # <<>> /\ bwc.chk.pre.runtime >= bwc.chk.pre.quota) =>
        IF bwc.chk.at < bwc.chk.pre.deadline
        THEN /\ ~bwc.chk.res
             /\ bwc.chk.post.runtime = bwc.chk.pre.runtime
             /\ bwc.chk.post.deadline = bwc.chk.pre.deadline
        ELSE /\ bwc.chk.res
             /\ bwc.chk.post.runtime = 0
             /\ bwc.chk.post.deadline = bwc.chk.at + bwc.chk.pre.period
             /\ ~Throttled(bwc.chk.post.flags)

\* a throttled record, its runtime beyond the quota, was checked first at its
\* deadline
ThrottledCheckedAtDeadline ==
    /\ bwc.chk # <<>>
    /\ bwc.chk.pre.runtime > bwc.chk.pre.quota
    /\ Throttled(bwc.chk.pre.flags)
    /\ bwc.chk.at = bwc.chk.pre.deadline

----------------------------------------------------------------------------
(* attach_task_to_group of task_scheduler_advanced.c, one lock operation   *)
(* or list operation per step                                              *)

AttachGroups == 2       \* groups that the callers of attach_task_to_group create
AttachTasks == 2        \* struct task_extension that the callers allocate
AttachCalls == 2        \* calls of attach_task_to_group per thread

\* what the steps of attach_task_to_group leave alone
noattach == <<now, tasks, groups, rq, balancing_lock, pc, loc, last, oops, quanta,
              alast, wq, freed, data, thr, walk, bwc>>

\* a caller allocates a zeroed struct task_extension
NewExtension ==
    /\ Len(atasks) < AttachTasks
    /\ atasks' = Append(atasks, [group |-> NULL])
    /\ UNCHANGED <<agroups, att, noattach>>

\* attach_task_to_group(task, group), lines 111-116, by thread p; no other
\* thread is in a call for the same task
AttachCall(p, task, group) ==
    /\ att[p].pc = "idle"
    /\ att[p].calls < AttachCalls
    /\ \A q \in Threads : att[q].pc # "idle" => att[q].task # task
    /\ att' = [att EXCEPT ![p] =
                 IF task = NULL \/ group = NULL
                 THEN [pc |-> "idle", task |-> NULL, group |-> NULL,
                       calls |-> @.calls + 1, res |-> -EINVAL]
                 ELSE [pc |-> "lock_new", task |-> task, group |-> group,
                       calls |-> @.calls + 1, res |-> 0]]
    /\ UNCHANGED <<agroups, atasks, noattach>>

\* line 118: spin_lock_irqsave(&group->group_lock, flags), then the test of
\* line 121
AttachLockNew(p) ==
    /\ att[p].pc = "lock_new"
    /\ agroups[att[p].group].group_lock = NULL
    /\ agroups' = [agroups EXCEPT ![att[p].group].group_lock = p]
    /\ att' = [att EXCEPT ![p].pc = IF atasks[att[p].task].group # NULL
                                    THEN "lock_old" ELSE "link"]
    /\ UNCHANGED <<atasks, noattach>>

\* line 122: spin_lock(&task->group->group_lock)
AttachLockOld(p) ==
    /\ att[p].pc = "lock_old"
    /\ agroups[atasks[att[p].task].group].group_lock = NULL
    /\ agroups' = [agroups EXCEPT ![atasks[att[p].task].group].group_lock = p]
    /\ att' = [att EXCEPT ![p].pc = "unlink"]
    /\ UNCHANGED <<atasks, noattach>>

\* lines 123-124: list_del(&task->group_node) and the unlock of the old group
AttachUnlink(p) ==
    /\ att[p].pc = "unlink"
    /\ agroups' = [agroups EXCEPT
                     ![atasks[att[p].task].group].tasks =
                         SelectSeq(@, LAMBDA t : t # att[p].task),
                     ![atasks[att[p].task].group].group_lock = NULL]
    /\ att' = [att EXCEPT ![p].pc = "link"]
    /\ UNCHANGED <<atasks, noattach>>

\* lines 127-131: task->group = group, list_add_tail, unlock, return 0
AttachLink(p) ==
    /\ att[p].pc = "link"
    /\ atasks' = [atasks EXCEPT ![att[p].task].group = att[p].group]
    /\ agroups' = [agroups EXCEPT
                     ![att[p].group].tasks = Append(@, att[p].task),
                     ![att[p].group].group_lock = NULL]
    /\ att' = [att EXCEPT ![p].pc = "idle", ![p].task = NULL, ![p].group = NULL]
    /\ UNCHANGED noattach

AttachNext ==
    \/ Len(agroups) < AttachGroups /\ CreateGroupAdvanced(NULL, TRUE)
    \/ NewExtension
    \/ \E p \in Threads : \E task \in {NULL} \cup (1 .. Len(atasks)) :
          \E group \in {NULL} \cup AGroups : AttachCall(p, task, group)
    \/ \E p \in Threads : AttachLockNew(p)
    \/ \E p \in Threads : AttachLockOld(p)
    \/ \E p \in Threads : AttachUnlink(p)
    \/ \E p \in Threads : AttachLink(p)

SpecAttach == Init /\ [][AttachNext]_vars

\* the group whose lock thread p is spinning on, if any
WaitsFor(p) ==
    IF att[p].pc = "lock_new" THEN att[p].group
    ELSE IF att[p].pc = "lock_old" THEN atasks[att[p].task].group
    ELSE NULL

\* thread p spins on a lock that a thread holds
Blocked(p) == WaitsFor(p) # NULL /\ agroups[WaitsFor(p)].group_lock # NULL

\* thread p and the next n holders along the locks are all spinning
RECURSIVE Stuck(_, _)
Stuck(p, n) ==
    Blocked(p) /\ (n = 0 \/ Stuck(agroups[WaitsFor(p)].group_lock, n - 1))

\* task t is in no call of attach_task_to_group
Settled(t) == \A p \in Threads : att[p].task # t

\* C30: attach_task_to_group always returns: no thread spins on a lock whose
\* chain of holders never releases, neither for a task that is already in
\* the target group nor for two opposite moves between two groups; after a
\* call the task is once on the tasks list of the group that task->group
\* names, and on the list of no other group.
AttachReturns ==
    /\ \A p \in Threads : ~Stuck(p, NCPU)
    /\ \A t \in 1 .. Len(atasks) :
          (Settled(t) /\ atasks[t].group # NULL) =>
              \A g \in AGroups :
                  Occurrences(agroups[g].tasks, t)
                      = (IF g = atasks[t].group THEN 1 ELSE 0)

----------------------------------------------------------------------------
(* Numbers of the groups                                                   *)

\* C31: every group that a create_task_group has returned has 0 < quota <=
\* period, with quota 70% of the period, the constant expressions being
\* evaluated in 32-bit int as the source writes them.
QuotaWithinPeriod ==
    /\ \A g \in 1 .. Len(groups) :
          /\ U64Lt(U64(0), groups[g].quota)
          /\ U64Le(groups[g].quota, U64(groups[g].period))
          /\ groups[g].quota = U64((groups[g].period \div 100) * DEFAULT_GROUP_QUOTA)
    /\ \A g \in AGroups :
          /\ 0 < agroups[g].bw.quota
          /\ agroups[g].bw.quota <= agroups[g].bw.period
          /\ agroups[g].bw.quota = (agroups[g].bw.period \div 100) * DEFAULT_BANDWIDTH

\* C32: whenever the lock of a run queue is free (no call is under way), the
\* nr_running of every core equals the number of entities in its index.
ReadyCountMatchesIndex ==
    Quiescent =>
        \A c \in CPUs : rq[c].nr_running = Len(rq[c].tasks_timeline)

\* the entities that are in the index of some core, with their multiplicity
Indexed(r, t) ==
    Cardinality({c \in CPUs : InTree(r[c].tasks_timeline, t)})

\* C33: load_balance() never loses or duplicates an entity: every entity is
\* in the indexes of the cores as often after a call as before it, each at
\* most once, also when the index of the idlest core is not empty.
BalanceKeepsEntities ==
    (wq # <<>> /\ wq.fn = "load_balance") =>
        \A t \in 1 .. Len(wq.pre.tasks) :
            /\ Indexed(wq.post.rq, t) = Indexed(wq.pre.rq, t)
            /\ \A c \in CPUs : Occurrences(wq.post.rq[c].tasks_timeline, t) <= 1

----------------------------------------------------------------------------
(* load_balance() called again and again, nothing else running             *)

\* one call of load_balance(), lines 206-243; moved records whether the call
\* changed an index, an nr_running or the cpu of an entity
Rebalance ==
    /\ ~oops /\ Quiescent
    /\ IF wq = <<>> THEN TRUE ELSE wq.fn = "rebalance"
    /\ LET S == load_balance(Here)
       IN  /\ tasks' = S.tasks
           /\ rq' = S.rq
           /\ wq' = [fn |-> "rebalance", moved |-> S.tasks # tasks \/ S.rq # rq]
    /\ UNCHANGED <<now, groups, balancing_lock, pc, loc, last, oops, quanta,
                   agroups, alast, outside>>

RebalanceNext ==
    \/ wq = <<>> /\ CallBase
    \/ Rebalance

\* the caller keeps calling load_balance()
SpecRebalance == Init /\ [][RebalanceNext]_vars /\ WF_vars(Rebalance)

\* C34: with nothing else running, repeated calls of load_balance() reach
\* after finitely many calls a state from which no call moves an entity: no
\* entity goes back and forth between two cores forever.
RebalanceSettles == <>[](IF wq = <<>> THEN TRUE ELSE ~wq.moved)

----------------------------------------------------------------------------
(* Starvation                                                              *)

\* entity t is Ready and no schedule() can reach it: it is in no index, it
\* is the curr of no core (which schedule() would reinsert) and no
\* custom_create_task is about to insert it
Unreachable(t) ==
    /\ t \in DOMAIN tasks
    /\ tasks[t].state = TASK_READY
    /\ \A c \in CPUs : ~InTree(rq[c].tasks_timeline, t) /\ rq[c].curr # t
    /\ \A p \in Threads : loc[p].task # t

\* an entity that no schedule() can reach stays so, and stays Ready, whatever
\* is called and however far the clock advances
UnreachableForever ==
    [][\A t \in Tasks : Unreachable(t) => Unreachable(t)']_vars

\* C35: no starvation: every entity that stays Ready on a core is dispatched
\* by some later schedule(), also an entity that was queued before a new
\* entity with vruntime 0 arrived.  The index is the only place schedule()
\* takes an entity from, so every Ready entity has to be within its reach.
NoStarvation == \A t \in Tasks : ~Unreachable(t)

----------------------------------------------------------------------------
(* The throttle flag of a bandwidth_control record                         *)

\* C36: after any sequence of update_bandwidth_usage and
\* check_bandwidth_limit calls on a record, GROUP_THROTTLED is set exactly
\* when the record is out of budget in its window (runtime >= quota), that
\* is exactly when check_bandwidth_limit called now would answer false.
ThrottledIffExhausted ==
    bwc.bw # <<>> =>
        /\ Throttled(bwc.bw.flags) <=> ~check_bandwidth_limit(bwc.bw, now).res
        /\ Throttled(bwc.bw.flags) <=>
              (~WindowEnded(now, bwc.bw.deadline) /\ bwc.bw.runtime >= bwc.bw.quota)

----------------------------------------------------------------------------
(* Weights and runtime_left of the entities                                *)

\* C37: every entity that custom_create_task has accepted (niceness in
\* -20 .. 19) has a weight above 0, and no accounting of an entity divides
\* by zero.
PositiveWeight ==
    /\ \A t \in Tasks : tasks[t].weight > 0
    /\ IF wq = <<>> THEN TRUE
       ELSE wq.fn = "update_curr_advanced" => ~wq.post.fault

\* C38: the runtime_left of an entity never exceeds the quota of its group,
\* and hence never the bandwidth period, at creation and after every rearm
\* at dispatch; and an accounting never takes more from runtime_left than it
\* holds.
RuntimeLeftWithinQuota ==
    /\ \A t \in Tasks :
          /\ U64Le(tasks[t].runtime_left, groups[tasks[t].group].quota)
          /\ U64Le(tasks[t].runtime_left, U64(groups[tasks[t].group].period))
    /\ IF wq = <<>> THEN TRUE
       ELSE wq.fn = "update_curr_advanced" =>
               U64Le(wq.post.tasks[wq.task].runtime_left,
                     wq.pre.tasks[wq.task].runtime_left)

----------------------------------------------------------------------------
(* check_load_imbalance of task_scheduler_advanced.c                       *)

MaxSiblings == 3        \* domains on the siblings list of a domain

\* the loads of the domains that the callers pass
LoadInputs == {0, 1, 100, MAX_CPU_CAPACITY}

\* the sibling lists: the loads of up to MaxSiblings domains
SiblingInputs ==
    UNION {[1 .. n -> LoadInputs] : n \in 0 .. MaxSiblings}

\* lines 155-158: total_load over the siblings
RECURSIVE TotalLoad(_)
TotalLoad(siblings) ==
    IF siblings = <<>> THEN 0 ELSE Head(siblings) + TotalLoad(Tail(siblings))

\* check_load_imbalance(domain) for a domain of the given load and siblings:
\* the outcomes of the call.  A division by zero at line 166 is undefined:
\* the call traps, or it returns either answer
check_load_imbalance(load, siblings) ==
    LET total_load == TotalLoad(siblings)
        nr_cpus    == Len(siblings)
    IN  IF nr_cpus = 0 THEN {[res |-> 0, fault |-> FALSE]}
        ELSE
        LET avg_load == total_load \div nr_cpus
        IN  IF avg_load = 0
            THEN {[res |-> 0, fault |-> TRUE], [res |-> 0, fault |-> FALSE],
                  [res |-> 1, fault |-> FALSE]}
            ELSE {[res |-> IF (load * 100) \div avg_load > LOAD_IMBALANCE_PCT
                           THEN 1 ELSE 0,
                   fault |-> FALSE]}

ImbalanceCall(load, siblings) ==
    /\ wq = <<>>
    /\ \E out \in check_load_imbalance(load, siblings) :
          wq' = [fn |-> "check_load_imbalance", load |-> load,
                 siblings |-> siblings, out |-> out]
    /\ UNCHANGED <<now, tasks, groups, rq, balancing_lock, pc, loc, last, oops,
                   quanta, agroups, alast, outside>>

ImbalanceNext ==
    \E load \in LoadInputs : \E siblings \in SiblingInputs :
        ImbalanceCall(load, siblings)

SpecImbalance == Init /\ [][ImbalanceNext]_vars

\* C39: check_load_imbalance never divides by zero: for every sibling list
\* and all sibling loads, also all of them 0, it returns a result, and it
\* returns 0 for a domain without siblings.
ImbalanceReturns ==
    IF wq = <<>> THEN TRUE
    ELSE wq.fn = "check_load_imbalance" =>
            /\ ~wq.out.fault
            /\ wq.siblings = <<>> => wq.out.res = 0

====
